---- MODULE Spec2Model ----
(***************************************************************************)
(* State-machine model of the load-generation harness:                     *)
(*   - AsyncTester (benchmarking-async/core/async_tester.py): batch        *)
(*     submission, job polling, sequential / semaphore-bounded dispatch;   *)
(*   - LoadTester.run_rate_limited (benchmarking/core/load_tester.py):     *)
(*     fixed-rate dispatch.                                                *)
(* Every await of the source is a point where an action ends; the code     *)
(* between two awaits is one atomic step.                                  *)
(***************************************************************************)
EXTENDS Integers, Sequences, FiniteSets, TLC

(***************************************************************************)
(* Bounds of the model.                                                    *)
(***************************************************************************)
MaxSamples == 3
MaxFilesPerRequest == 2
MaxConcurrency == 2
MaxTimeout == 1
MaxInterval == 1
MaxLatency == 1
MaxPollTimeout == 4
MaxPollInterval == 2
SampleFileSize == 1

(***************************************************************************)
(* Python values.                                                          *)
(***************************************************************************)
None == "<None>"

\* bool(v) of an optional string: None and "" are falsy
Truthy(v) == v \notin {None, ""}

\* a state of the status answer that is a JSON number, not a string
NumberState == "<7>"

\* isinstance(v, str) of a state
IsString(v) == v # NumberState

\* a or b
Or(a, b) == IF Truthy(a) THEN a ELSE b

\* the state compared as it is spelled
Lower_Identity(s) == s

\* str.lower() on the state labels the model's server can answer
Lower(s) ==
    CASE s \in {"Finished", "FINISHED"} -> "finished"
      [] s = "Completed" -> "completed"
      [] s = "SUCCESSFUL" -> "successful"
      [] s = "DONE" -> "done"
      [] s = "FAILED" -> "failed"
      [] s = "Cancelled" -> "cancelled"
      [] s = "RUNNING" -> "running"
      [] OTHER -> s

FINISHED_STATES == {"finished", "completed", "successful", "done"}
FAILED_STATES == {"failed", "cancelled"}

(***************************************************************************)
(* AsyncTestConfig                                                         *)
(***************************************************************************)
AsyncTestConfig(n, k, c, t, p) ==
    [nsamples |-> n, files_per_request |-> k, concurrency |-> c,
     job_timeout_seconds |-> t, poll_interval_seconds |-> p]

is_sequential(cfg) == cfg.concurrency = 1

\* the attempt budget rounded up instead of down
max_attempts_ceil(cfg) ==
    (cfg.job_timeout_seconds + cfg.poll_interval_seconds - 1) \div cfg.poll_interval_seconds

\* max_attempts = int(job_timeout_seconds / poll_interval_seconds)
max_attempts(cfg) == cfg.job_timeout_seconds \div cfg.poll_interval_seconds

Min(a, b) == IF a < b THEN a ELSE b

\* batches cut only where k whole files remain
Batches_DropRemainder(cfg) ==
    LET n == cfg.nsamples
        k == cfg.files_per_request
        starts == {i \in 0..(n - 1) : i % k = 0 /\ i + k <= n}
    IN  [b \in 1..Cardinality(starts) |-> [j \in 1..k |-> (b - 1) * k + j]]

\* batches = [samples[i:i+k] for i in range(0, len(samples), k)]
\* a sample is its index in the loaded list
Batches(cfg) ==
    LET n == cfg.nsamples
        k == cfg.files_per_request
        starts == {i \in 0..(n - 1) : i % k = 0}
    IN  [b \in 1..Cardinality(starts) |->
            [j \in 1..(Min((b - 1) * k + k, n) - (b - 1) * k) |-> (b - 1) * k + j]]

(***************************************************************************)
(* JobResult                                                               *)
(***************************************************************************)
JobResult(job_id, batch_id, file_count, file_size_bytes, submit_start, submit_end, job_end, final_state, error_message) ==
    [job_id |-> job_id, batch_id |-> batch_id, file_count |-> file_count,
     file_size_bytes |-> file_size_bytes,
     submit_start |-> submit_start, submit_end |-> submit_end,
     submit_latency_ms |-> (submit_end - submit_start) * 1000,
     job_start |-> submit_end, job_end |-> job_end,
     job_duration_seconds |-> 0, poll_count |-> 0,
     final_state |-> final_state, success |-> FALSE,
     error_message |-> error_message]

\* placeholder of a unit that has not produced its JobResult yet
NoResult == JobResult(None, 0, 0, 0, 0, 0, 0, None, None)

(***************************************************************************)
(* Server answers                                                          *)
(***************************************************************************)
\* answer to the POST: a transport error, or a status and a body; the body is
\* not JSON ("invalid"), JSON but not an object ("nonobject"), or an object
\* whose "id" member is id (None when absent or null)
SubmitResponse(exc, status, json, id) ==
    [exc |-> exc, status |-> status, json |-> json, id |-> id]

TransportError == SubmitResponse(TRUE, 0, "invalid", None)

\* _submit_batch: response, before the POST has answered
NoResponse == SubmitResponse(FALSE, 0, "invalid", None)

\* answer to the GET: the four places the state can be in
StatusBody(state, job_present, job_state, status, jobState) ==
    [state |-> state, job |-> [present |-> job_present, state |-> job_state],
     status |-> status, jobState |-> jobState]

PollResponse(exc, status, json, data) ==
    [exc |-> exc, status |-> status, json |-> json, data |-> data]

EmptyBody == StatusBody(None, FALSE, None, None, None)

PollTransportError == PollResponse(TRUE, 0, "invalid", EmptyBody)

(***************************************************************************)
(* _submit_batch, from the response on                                     *)
(***************************************************************************)
\* _submit_batch taking every 2xx status for an accepted submission
SubmitOutcome_Any2xx(files, batch_id, file_size_bytes, submit_start, submit_end, resp) ==
    IF resp.status \notin {200, 202}
    THEN JobResult(None, batch_id, Len(files), file_size_bytes * Len(files),
                   submit_start, submit_end, submit_end, "SUBMIT_FAILED",
                   "HTTP error")
    ELSE IF resp.json = "object"
    THEN JobResult(resp.id, batch_id, Len(files), file_size_bytes * Len(files),
                   submit_start, submit_end, 0, "SUBMITTED", None)
    ELSE JobResult(None, batch_id, Len(files), file_size_bytes * Len(files),
                   submit_start, submit_end, submit_end, "PARSE_ERROR",
                   "parse error")

\* _submit_batch reading the id of any JSON value without failing
SubmitOutcome_LenientJson(files, batch_id, file_size_bytes, submit_start, submit_end, resp) ==
    IF resp.status # 202
    THEN JobResult(None, batch_id, Len(files), file_size_bytes * Len(files),
                   submit_start, submit_end, submit_end, "SUBMIT_FAILED",
                   "HTTP error")
    ELSE IF resp.json # "invalid"
    THEN JobResult(resp.id, batch_id, Len(files), file_size_bytes * Len(files),
                   submit_start, submit_end, 0, "SUBMITTED", None)
    ELSE JobResult(None, batch_id, Len(files), file_size_bytes * Len(files),
                   submit_start, submit_end, submit_end, "PARSE_ERROR",
                   "parse error")

\* the JobResult _submit_batch returns for a response that was received
SubmitOutcome(files, batch_id, file_size_bytes, submit_start, submit_end, resp) ==
    IF resp.status # 202
    THEN JobResult(None, batch_id, Len(files), file_size_bytes * Len(files),
                   submit_start, submit_end, submit_end, "SUBMIT_FAILED",
                   "HTTP error")
    ELSE IF resp.json = "object"
    THEN JobResult(resp.id, batch_id, Len(files), file_size_bytes * Len(files),
                   submit_start, submit_end, 0, "SUBMITTED", None)
    ELSE JobResult(None, batch_id, Len(files), file_size_bytes * Len(files),
                   submit_start, submit_end, submit_end, "PARSE_ERROR",
                   "parse error")

(***************************************************************************)
(* _poll_until_complete                                                    *)
(***************************************************************************)
\* the four places read in another order: status before job.state
ExtractState_StatusFirst(data) ==
    Or(data.state,
       Or(data.status,
          Or(IF data.job.present THEN data.job.state ELSE None, data.jobState)))

\* state = data.get("state") or (data.get("job") or {}).get("state")
\*         or data.get("status") or data.get("jobState")
ExtractState(data) ==
    Or(data.state,
       Or(IF data.job.present THEN data.job.state ELSE None,
          Or(data.status, data.jobState)))

\* the terminal writes of the poller, counting the attempts before this one
Finalize_PollsBefore(job, job_start, job_end, poll_count, final_state, success, error_message) ==
    [job EXCEPT !.job_end = job_end,
                !.job_duration_seconds = job_end - job_start,
                !.poll_count = poll_count - 1,
                !.final_state = final_state,
                !.success = success,
                !.error_message = error_message]

\* the terminal writes of the poller
Finalize(job, job_start, job_end, poll_count, final_state, success, error_message) ==
    [job EXCEPT !.job_end = job_end,
                !.job_duration_seconds = job_end - job_start,
                !.poll_count = poll_count,
                !.final_state = final_state,
                !.success = success,
                !.error_message = error_message]

\* the timeout block leaving error_message as it was
TimedOut_Silent(job, job_start, job_end, poll_count) ==
    Finalize(job, job_start, job_end, poll_count, "TIMEOUT", FALSE, job.error_message)

\* the block after the poll loop
TimedOut(job, job_start, job_end, poll_count) ==
    Finalize(job, job_start, job_end, poll_count, "TIMEOUT", FALSE, "Timed out")


\* one submit-then-poll unit: its position and the locals of _submit_batch and
\* _poll_until_complete; clock is time.time() as that unit reads it; while the
\* unit sleeps, fault tells that the attempt before ended in the non-200
\* branch, the invalid-JSON branch or the except branch; sleeps counts the
\* asyncio.sleep calls that have returned
NewUnit(pc) ==
    [pc |-> pc, job |-> NoResult, clock |-> 0, submit_start |-> 0,
     response |-> NoResponse,
     job_start |-> 0, last_state |-> None, last_state_time |-> 0,
     poll_count |-> 0, data |-> EmptyBody, state |-> None,
     fault |-> FALSE, sleeps |-> 0]

\* head of "for _ in range(max_attempts)": the next attempt, or the timeout
\* block after the loop
NextAttempt(u, cfg) ==
    IF u.poll_count < max_attempts(cfg)
    THEN [u EXCEPT !.poll_count = @ + 1, !.pc = "polling"]
    ELSE [u EXCEPT !.pc = "returned",
                   !.job = TimedOut(u.job, u.job_start, u.clock, u.poll_count)]

\* entry of _poll_until_complete with the JobResult of the submission
EnterPoll(u, cfg) ==
    IF ~Truthy(u.job.job_id)
    THEN [u EXCEPT !.pc = "returned"]
    ELSE NextAttempt([u EXCEPT !.job_start = u.clock, !.last_state = None,
                               !.last_state_time = u.clock, !.poll_count = 0],
                     cfg)

\* the "[Stage complete]" line of a state change at time now: the previous
\* state and the time spent in it, if there is a previous state
StageComplete(u, now) ==
    IF Truthy(u.last_state)
    THEN {[state |-> u.last_state, stage_duration |-> now - u.last_state_time]}
    ELSE {}

\* the "[Stage complete]" lines one loop iteration writes once the GET has
\* answered after lat seconds: the line of the state change, unless the
\* description of the new state raises before it
PollLog(u, resp, lat) ==
    IF resp.exc \/ resp.status # 200 \/ resp.json # "object"
    THEN {}
    ELSE LET state == ExtractState(resp.data)
         IN  IF Truthy(state) /\ state # u.last_state /\ IsString(state)
             THEN StageComplete(u, u.clock + lat)
             ELSE {}

\* the poller forgetting the last observed state when an attempt fails
PollStep_FaultResets(u, resp, lat) ==
    LET now == u.clock + lat
        u1 == [u EXCEPT !.clock = now]
    IN  IF resp.exc \/ resp.status # 200 \/ resp.json # "object"
        THEN [u1 EXCEPT !.pc = "sleeping", !.fault = TRUE, !.last_state = None]
        ELSE
          LET state == ExtractState(resp.data)
              u2 == IF Truthy(state) /\ state # u.last_state
                    THEN [u1 EXCEPT !.data = resp.data, !.state = state,
                                    !.last_state = state, !.last_state_time = now]
                    ELSE [u1 EXCEPT !.data = resp.data, !.state = state]
          IN  IF Truthy(state) /\ state # u.last_state /\ ~IsString(state)
              THEN [u1 EXCEPT !.data = resp.data, !.state = state,
                              !.pc = "sleeping", !.fault = TRUE]
              ELSE IF Truthy(state) /\ Lower(state) \in FINISHED_STATES
              THEN [u2 EXCEPT !.pc = "returned",
                              !.job = Finalize(u.job, u.job_start, now, u.poll_count,
                                               state, TRUE, u.job.error_message)]
              ELSE IF Truthy(state) /\ Lower(state) \in FAILED_STATES
              THEN [u2 EXCEPT !.pc = "returned",
                              !.job = Finalize(u.job, u.job_start, now, u.poll_count,
                                               state, FALSE, "Job ended with state")]
              ELSE [u2 EXCEPT !.pc = "sleeping"]

\* the poller writing the success outcome without returning
PollStep_NoReturn(u, resp, lat) ==
    LET now == u.clock + lat
        u1 == [u EXCEPT !.clock = now]
    IN  IF resp.exc \/ resp.status # 200 \/ resp.json # "object"
        THEN [u1 EXCEPT !.pc = "sleeping", !.fault = TRUE]
        ELSE
          LET state == ExtractState(resp.data)
              u2 == IF Truthy(state) /\ state # u.last_state
                    THEN [u1 EXCEPT !.data = resp.data, !.state = state,
                                    !.last_state = state, !.last_state_time = now]
                    ELSE [u1 EXCEPT !.data = resp.data, !.state = state]
          IN  IF Truthy(state) /\ state # u.last_state /\ ~IsString(state)
              THEN [u1 EXCEPT !.data = resp.data, !.state = state,
                              !.pc = "sleeping", !.fault = TRUE]
              ELSE IF Truthy(state) /\ Lower(state) \in FINISHED_STATES
              THEN [u2 EXCEPT !.pc = "sleeping",
                              !.job = Finalize(u.job, u.job_start, now, u.poll_count,
                                               state, TRUE, u.job.error_message)]
              ELSE IF Truthy(state) /\ Lower(state) \in FAILED_STATES
              THEN [u2 EXCEPT !.pc = "returned",
                              !.job = Finalize(u.job, u.job_start, now, u.poll_count,
                                               state, FALSE, "Job ended with state")]
              ELSE [u2 EXCEPT !.pc = "sleeping"]

\* the loop body writing poll_count into the JobResult at every attempt
PollStep_CountsEarly(u, resp, lat) ==
    LET now == u.clock + lat
        u1 == [u EXCEPT !.clock = now, !.job.poll_count = u.poll_count]
    IN  IF resp.exc \/ resp.status # 200 \/ resp.json # "object"
        THEN [u1 EXCEPT !.pc = "sleeping", !.fault = TRUE]
        ELSE
          LET state == ExtractState(resp.data)
              u2 == IF Truthy(state) /\ state # u.last_state
                    THEN [u1 EXCEPT !.data = resp.data, !.state = state,
                                    !.last_state = state, !.last_state_time = now]
                    ELSE [u1 EXCEPT !.data = resp.data, !.state = state]
          IN  IF Truthy(state) /\ state # u.last_state /\ ~IsString(state)
              THEN [u1 EXCEPT !.data = resp.data, !.state = state,
                              !.pc = "sleeping", !.fault = TRUE]
              ELSE IF Truthy(state) /\ Lower(state) \in FINISHED_STATES
              THEN [u2 EXCEPT !.pc = "returned",
                              !.job = Finalize(u.job, u.job_start, now, u.poll_count,
                                               state, TRUE, u.job.error_message)]
              ELSE IF Truthy(state) /\ Lower(state) \in FAILED_STATES
              THEN [u2 EXCEPT !.pc = "returned",
                              !.job = Finalize(u.job, u.job_start, now, u.poll_count,
                                               state, FALSE, "Job ended with state")]
              ELSE [u2 EXCEPT !.pc = "sleeping"]

\* the body of one loop iteration once the GET has answered after lat seconds
PollStep(u, resp, lat) ==
    LET now == u.clock + lat
        u1 == [u EXCEPT !.clock = now]
    IN  IF resp.exc \/ resp.status # 200 \/ resp.json # "object"
        THEN [u1 EXCEPT !.pc = "sleeping", !.fault = TRUE]
        ELSE
          LET state == ExtractState(resp.data)
              u2 == IF Truthy(state) /\ state # u.last_state
                    THEN [u1 EXCEPT !.data = resp.data, !.state = state,
                                    !.last_state = state, !.last_state_time = now]
                    ELSE [u1 EXCEPT !.data = resp.data, !.state = state]
          IN  IF Truthy(state) /\ state # u.last_state /\ ~IsString(state)
              THEN [u1 EXCEPT !.data = resp.data, !.state = state,
                              !.pc = "sleeping", !.fault = TRUE]
              ELSE IF Truthy(state) /\ Lower(state) \in FINISHED_STATES
              THEN [u2 EXCEPT !.pc = "returned",
                              !.job = Finalize(u.job, u.job_start, now, u.poll_count,
                                               state, TRUE, u.job.error_message)]
              ELSE IF Truthy(state) /\ Lower(state) \in FAILED_STATES
              THEN [u2 EXCEPT !.pc = "returned",
                              !.job = Finalize(u.job, u.job_start, now, u.poll_count,
                                               state, FALSE, "Job ended with state")]
              ELSE [u2 EXCEPT !.pc = "sleeping"]

\* _submit_batch up to the await of the POST: the sample files are opened
\* (opened is FALSE when open() raises), then the request is sent
BeginSubmit(u, opened) ==
    IF opened
    THEN [u EXCEPT !.submit_start = u.clock, !.pc = "submitting"]
    ELSE [u EXCEPT !.submit_start = u.clock, !.pc = "raised"]

\* _submit_batch from the answer of the POST on, then _poll_until_complete up
\* to its first await
EndSubmit(u, cfg, files, batch_id, resp, lat) ==
    IF resp.exc
    THEN [u EXCEPT !.clock = u.clock + lat, !.pc = "raised"]
    ELSE EnterPoll([u EXCEPT !.clock = u.clock + lat, !.response = resp,
                             !.job = SubmitOutcome(files, batch_id, SampleFileSize,
                                                   u.submit_start, u.clock + lat, resp)],
                   cfg)

(***************************************************************************)
(* Python floats: IEEE 754 doubles, every operation rounded to nearest,    *)
(* ties to even.  A double other than 0.0 is kept as its 53 mantissa bits, *)
(* first bit 1, and the exponent e of math.frexp: its value is             *)
(* 0.m[1]m[2]...m[53] * 2^e.  Only values >= 0 occur.                      *)
(***************************************************************************)
DoubleBits == 53

Zeros(n) == [i \in 1..n |-> 0]

FloatZero == [zero |-> TRUE, m |-> <<>>, e |-> 0]

RECURSIVE NatBits(_)
\* the binary digits of a natural number, first digit 1; none for 0
NatBits(k) == IF k = 0 THEN <<>> ELSE Append(NatBits(k \div 2), k % 2)

RECURSIVE Reverse(_)
Reverse(seq) == IF seq = <<>> THEN <<>> ELSE Append(Reverse(Tail(seq)), Head(seq))

RECURSIVE IncRev(_)
\* binary digits, last digit first, plus one
IncRev(rev) ==
    IF rev = <<>> THEN <<1>>
    ELSE IF Head(rev) = 0 THEN <<1>> \o Tail(rev)
         ELSE <<0>> \o IncRev(Tail(rev))

\* 0.bits * 2^e (first bit 1; sticky: something non-zero lies beyond bits)
\* rounded to p significant bits, to nearest, ties to even
RoundBits(bits, e, sticky, p) ==
    IF Len(bits) <= p
    THEN [zero |-> FALSE, m |-> bits \o Zeros(p - Len(bits)), e |-> e]
    ELSE LET kept == SubSeq(bits, 1, p)
             guard == bits[p + 1]
             rest == sticky \/ \E i \in (p + 2)..Len(bits) : bits[i] = 1
             up == guard = 1 /\ (rest \/ kept[p] = 1)
             inc == Reverse(IncRev(Reverse(kept)))
         IN  IF ~up THEN [zero |-> FALSE, m |-> kept, e |-> e]
             ELSE IF Len(inc) > p
                  THEN [zero |-> FALSE, m |-> SubSeq(inc, 1, p), e |-> e + 1]
                  ELSE [zero |-> FALSE, m |-> inc, e |-> e]

\* float(k) for an int k >= 0 of at most 53 bits
FloatOfInt(k) ==
    IF k = 0 THEN FloatZero
    ELSE RoundBits(NatBits(k), Len(NatBits(k)), FALSE, DoubleBits)

RECURSIVE FracBits(_, _, _)
\* the first k binary digits of r / d after the point, 0 <= r < d
FracBits(r, d, k) ==
    IF k = 0 THEN <<>> ELSE <<(2 * r) \div d>> \o FracBits((2 * r) % d, d, k - 1)

RECURSIVE RemAfter(_, _, _)
\* what is left of r / d after k binary digits
RemAfter(r, d, k) == IF k = 0 THEN r ELSE RemAfter((2 * r) % d, d, k - 1)

RECURSIVE LeadingZeros(_, _)
\* the zeros of r / d after the point and before its first 1, 0 < r < d
LeadingZeros(r, d) == IF 2 * r >= d THEN 0 ELSE 1 + LeadingZeros(2 * r, d)

\* n / d for ints n >= 0, d > 0: the quotient, correctly rounded
FloatDiv(n, d) ==
    IF n = 0 THEN FloatZero
    ELSE LET int_bits == NatBits(n \div d)
             r == n % d
         IN  IF int_bits # <<>>
             THEN LET k == DoubleBits + 1 - Len(int_bits)
                  IN  RoundBits(int_bits \o FracBits(r, d, k), Len(int_bits),
                                RemAfter(r, d, k) # 0, DoubleBits)
             ELSE LET z == LeadingZeros(r, d)
                      r1 == RemAfter(r, d, z)
                  IN  RoundBits(FracBits(r1, d, DoubleBits + 1), 0 - z,
                                RemAfter(r1, d, DoubleBits + 1) # 0, DoubleBits)

RECURSIVE MulRev(_, _, _)
\* binary digits, last digit first, times k plus carry
MulRev(rev, k, carry) ==
    IF rev = <<>> THEN Reverse(NatBits(carry))
    ELSE LET t == Head(rev) * k + carry
         IN  <<t % 2>> \o MulRev(Tail(rev), k, t \div 2)

\* x * k for a float x and an int k >= 0: the product, correctly rounded
FloatMul(x, k) ==
    IF x.zero \/ k = 0 THEN FloatZero
    ELSE LET bits == Reverse(MulRev(Reverse(x.m), k, 0))
         IN  RoundBits(bits, x.e + Len(bits) - Len(x.m), FALSE, DoubleBits)

(***************************************************************************)
(* _calculate_results (counts)                                             *)
(***************************************************************************)
RECURSIVE SumPolls(_)
SumPolls(seq) == IF seq = <<>> THEN 0 ELSE Head(seq).poll_count + SumPolls(Tail(seq))

\* successful = [r for r in self.job_results if r.success]
Successful(res) == SelectSeq(res, LAMBDA r : r.success)

\* every job without success counted as failed, the timed-out ones too
Failed_NotSuccessful(res) == SelectSeq(res, LAMBDA r : ~r.success)

\* failed = [r for r in ... if not r.success and r.final_state != "TIMEOUT"]
Failed(res) == SelectSeq(res, LAMBDA r : ~r.success /\ r.final_state # "TIMEOUT")

\* timed_out = [r for r in self.job_results if r.final_state == "TIMEOUT"]
Timed_out(res) == SelectSeq(res, LAMBDA r : r.final_state = "TIMEOUT")

\* a float that is the quotient of two integers, kept as that quotient
Ratio(num, den) == [num |-> num, den |-> den]

\* error_rate = ((len(failed) + len(timed_out)) / total_jobs * 100)
\*              if total_jobs > 0 else 0.0
error_rate(res) ==
    IF Len(res) > 0
    THEN Ratio((Len(Failed(res)) + Len(Timed_out(res))) * 100, Len(res))
    ELSE Ratio(0, 1)

\* the error rate over the failed jobs only
error_rate_float_FailedOnly(res) ==
    IF Len(res) > 0
    THEN FloatMul(FloatDiv(Len(Failed(res)), Len(res)), 100)
    ELSE FloatZero

\* the same expression as Python evaluates it: a float division, then a
\* float multiplication
error_rate_float(res) ==
    IF Len(res) > 0
    THEN FloatMul(FloatDiv(Len(Failed(res)) + Len(Timed_out(res)), Len(res)), 100)
    ELSE FloatZero

NoSummary == [made |-> FALSE, total_files |-> 0, total_jobs |-> 0,
              successful_jobs |-> 0, failed_jobs |-> 0, timed_out_jobs |-> 0,
              total_polls |-> 0, error_rate |-> Ratio(0, 1)]

_calculate_results(res, total_files) ==
    [made |-> TRUE, total_files |-> total_files, total_jobs |-> Len(res),
     successful_jobs |-> Len(Successful(res)),
     failed_jobs |-> Len(Failed(res)),
     timed_out_jobs |-> Len(Timed_out(res)),
     total_polls |-> SumPolls(res),
     error_rate |-> error_rate(res)]

RECURSIVE SumFiles(_)
\* sum(r.file_count for r in ...)
SumFiles(seq) == IF seq = <<>> THEN 0 ELSE Head(seq).file_count + SumFiles(Tail(seq))

\* the throughput over the files of every job, successful or not
throughput_files_AllJobs(res, duration) ==
    IF duration > 0 THEN Ratio(SumFiles(res), duration) ELSE Ratio(0, 1)

\* throughput_files = successful_files / total_duration
\*                    if total_duration > 0 else 0.0
throughput_files(res, duration) ==
    IF duration > 0 THEN Ratio(SumFiles(Successful(res)), duration) ELSE Ratio(0, 1)

(***************************************************************************)
(* _calculate_percentile                                                   *)
(***************************************************************************)
RECURSIVE Insert(_, _)
\* one step of sorted(values): x put before the first element not below it
Insert(x, seq) ==
    IF seq = <<>> THEN <<x>>
    ELSE IF x <= Head(seq) THEN <<x>> \o seq
         ELSE <<Head(seq)>> \o Insert(x, Tail(seq))

RECURSIVE sorted(_)
\* sorted(values), ascending
sorted(seq) == IF seq = <<>> THEN <<>> ELSE Insert(Head(seq), sorted(Tail(seq)))

\* the other nearest-rank convention: rank ceil(n * p / 100), counted from 1
_calculate_percentile_CeilRank(vals, pct) ==
    IF vals = <<>> THEN 0
    ELSE LET sorted_values == sorted(vals)
             rank == (Len(sorted_values) * pct + 99) \div 100
             index == Min(IF rank > 1 THEN rank - 1 ELSE 0, Len(sorted_values) - 1)
         IN  sorted_values[index + 1]

\* int(len * percentile / 100) is the floor for a percentile >= 0; Python
\* indexes from 0, a sequence from 1
_calculate_percentile(vals, pct) ==
    IF vals = <<>> THEN 0
    ELSE LET sorted_values == sorted(vals)
             index == Min((Len(sorted_values) * pct) \div 100, Len(sorted_values) - 1)
         IN  sorted_values[index + 1]

(***************************************************************************)
(* _submit_batch: the file name of a multipart part.  A string is the      *)
(* sequence of its characters.                                             *)
(***************************************************************************)
Digit(d) == <<"0", "1", "2", "3", "4", "5", "6", "7", "8", "9">>[d + 1]

RECURSIVE Decimal(_)
\* str(n) for an int n >= 0
Decimal(n) == IF n < 10 THEN <<Digit(n)>> ELSE Append(Decimal(n \div 10), Digit(n % 10))

\* f"{n:03d}" for an int n >= 0: at least three digits, zeros in front
Format03d(n) ==
    LET d == Decimal(n)
    IN  IF Len(d) >= 3 THEN d ELSE [i \in 1..(3 - Len(d)) |-> "0"] \o d

\* os.path.splitext on a file name without a separator: the extension
\* starts at the last dot that has a character other than a dot before it
splitext(fname) ==
    LET dots == {i \in 1..Len(fname) :
                    fname[i] = "." /\ \E j \in 1..(i - 1) : fname[j] # "."}
    IN  IF dots = {} THEN [base |-> fname, ext |-> <<>>]
        ELSE LET p == CHOOSE i \in dots : \A j \in dots : j <= i
             IN  [base |-> SubSeq(fname, 1, p - 1), ext |-> SubSeq(fname, p, Len(fname))]

\* a name that carries the batch id only
numbered_name_BatchOnly(fname, batch_id, idx) ==
    LET parts == splitext(fname)
    IN  parts.base \o <<"_", "b">> \o Format03d(batch_id) \o parts.ext

\* numbered_name = f"{base}_b{batch_id:03d}_f{idx:03d}{ext}"
numbered_name(fname, batch_id, idx) ==
    LET parts == splitext(fname)
    IN  parts.base \o <<"_", "b">> \o Format03d(batch_id)
            \o <<"_", "f">> \o Format03d(idx) \o parts.ext

(***************************************************************************)
(* State                                                                   *)
(***************************************************************************)
VARIABLES
    config,       \* AsyncTester.config
    runpc,        \* position of AsyncTester.run
    batches,      \* run: batches
    unit,         \* the submit-then-poll units, by batch id
    seq_i,        \* run: batch_id of the sequential loop
    semaphore,    \* run: value of the asyncio.Semaphore
    job_results,  \* AsyncTester.job_results
    summary,      \* the AsyncTestResult run returns
    net,          \* requests that reached the network, by batch id
    lt_config,    \* LoadTester.config
    lt_pc,        \* position of LoadTester.run
    lt_i,         \* run_sequential / run_rate_limited: i (and file_index)
    sample_files, \* LoadTester.sample_loader.sample_files
    tasks,        \* run_rate_limited: tasks
    results,      \* LoadTester.results
    test_result,  \* the TestResult LoadTester.run returns
    exit_code,    \* exit status of cli/single.py, once main has ended
    lt_exit_code, \* exit status of cli/load_test.py, once main has ended
    values,       \* _calculate_percentile: values
    percentile,   \* _calculate_percentile: percentile
    pvalue,       \* what _calculate_percentile returned, once called
    total_duration, \* _calculate_results: total_duration, in seconds
    throughput,   \* AsyncTestResult.throughput_files_per_second
    rate,         \* AsyncTestResult.error_rate, the float
    calls,        \* how many times _calculate_results was called
    directories,  \* FileSizeSweep.run: len(directories)
    stage_runs,   \* what tester.run() did in each stage so far
    aggregator,   \* FileSizeSweep.aggregator.results
    sweep_pc,     \* position of FileSizeSweep.run
    sweep_i,      \* FileSizeSweep.run: i
    stage_results, \* FileSizeSweep.run: stage_results
    sweep_result, \* the SweepResult FileSizeSweep.run returns
    ds_counts,    \* run_sequential_sweep: len(counts)
    ds_files,     \* run_sequential_sweep: files
    ds_pc,        \* position of DatasourceSweep.run_sequential_sweep
    ds_i,         \* run_sequential_sweep: the place of count in counts
    ds_exc,       \* an exception is on its way out of the with block
    ds_results,   \* run_sequential_sweep: len(results)
    docker,       \* the container of the manager's name, as docker has it
    ds_log,       \* by stage: what was done to its container and its test
    samples_path, \* what config.samples_dir of the AsyncTester is on disk
    part_fname,   \* _submit_batch: fname of two file parts, as characters
    part_a,       \* batch_id and idx of the first part
    part_b,       \* batch_id and idx of the second part
    sent_names,   \* numbered_name of the two parts, once built
    got,          \* Optional: index and outcome of the last get_file called from outside run
    suite         \* run_test_suite: test_rates, position, i, aggregator.results

atvars == <<config, runpc, batches, unit, seq_i, semaphore, job_results, summary, net, exit_code>>
ltvars == <<lt_config, lt_pc, lt_i, sample_files, tasks, results, test_result, lt_exit_code>>
pctvars == <<values, percentile, pvalue>>
calcvars == <<total_duration, throughput, rate, calls>>
sweepvars ==
    <<directories, sweep_pc, sweep_i, stage_results, sweep_result, stage_runs, aggregator>>
dsvars == <<ds_counts, ds_files, ds_pc, ds_i, ds_exc, ds_results, docker, ds_log>>
namevars == <<part_fname, part_a, part_b, sent_names>>
restvars == <<samples_path, pctvars, calcvars, sweepvars, dsvars, namevars, got, suite>>
vars == <<atvars, ltvars, restvars>>

NumBatches == Len(batches)

\* _calculate_percentile not called
PercentileUnused ==
    /\ values = <<>>
    /\ percentile = 0
    /\ pvalue = {}

\* _calculate_results called by run only
CalcUnused ==
    /\ total_duration = 0
    /\ throughput = Ratio(0, 1)
    /\ rate = FloatZero
    /\ calls = 0

NoSweepResult == [made |-> FALSE, total_files_processed |-> 0,
                  overall_error_rate |-> FloatZero]

\* no FileSizeSweep
SweepUnused ==
    /\ directories = 0
    /\ sweep_pc = "unused"
    /\ sweep_i = 1
    /\ stage_results = <<>>
    /\ sweep_result = NoSweepResult
    /\ stage_runs = <<>>
    /\ aggregator = <<>>

\* docker has no container of the manager's name
NoContainer == [state |-> "absent", stage |-> 0]

\* no DatasourceSweep
DsUnused ==
    /\ ds_counts = 0
    /\ ds_files = 0
    /\ ds_pc = "unused"
    /\ ds_i = 1
    /\ ds_exc = FALSE
    /\ ds_results = 0
    /\ docker = NoContainer
    /\ ds_log = <<>>

\* get_file not called from outside run
NoCall == {}

\* no file part named
NamesUnused ==
    /\ part_fname = <<>>
    /\ part_a = [batch_id |-> 1, idx |-> 1]
    /\ part_b = [batch_id |-> 1, idx |-> 1]
    /\ sent_names = <<>>

\* run_test_suite not called; outcomes tells, for each test so far, whether
\* tester.run() returned or raised
NoSuite == [pc |-> "unused", samples_dir |-> 0, test_rates |-> <<>>, i |-> 0,
            outcomes |-> <<>>, results |-> <<>>]

\* what a state machine of one tester leaves alone
RestUnused ==
    /\ PercentileUnused
    /\ CalcUnused
    /\ SweepUnused
    /\ DsUnused
    /\ NamesUnused
    /\ got = NoCall
    /\ suite = NoSuite


(***************************************************************************)
(* LoadTester (benchmarking/core/load_tester.py)                           *)
(***************************************************************************)
MaxRate == 2
MaxDuration == 3
MaxRequests == 6
MaxSequential == 2
MaxSampleFiles == 2

\* Optional[int]: None is {}, the integer v is {v}
Some(v) == {v}
Value(o) == CHOOSE v \in o : TRUE
IsNone(o) == o = {}

\* not o, for an Optional[int]
Falsy(o) == IsNone(o) \/ Value(o) = 0

\* cli/single.py main, from asyncio.run(tester.run()) on: the exit status
\* when run returned the summary res ("returned"), raised an exception
\* ("raised"), or was interrupted from the keyboard ("interrupted")
single_main(how, res) ==
    CASE how = "returned" -> IF res.error_rate.num > 0 THEN 1 ELSE 0
      [] how = "interrupted" -> 130
      [] how = "raised" -> 1

\* cli/load_test.py main, from asyncio.run(tester.run()) on
load_test_main(how) ==
    CASE how = "returned" -> 0
      [] how = "interrupted" -> 0
      [] how = "raised" -> 1

\* samples_dir is the number of sample files the directory holds
TestConfig(samples_dir, files_per_second, duration, sequential_count) ==
    [samples_dir |-> samples_dir, files_per_second |-> files_per_second,
     duration |-> duration, sequential_count |-> sequential_count]

TestConfig_is_sequential(cfg) == ~IsNone(cfg.sequential_count)

TestConfig_is_rate_limited(cfg) ==
    ~IsNone(cfg.files_per_second) /\ ~IsNone(cfg.duration)

\* get_file that stops at the last sample
get_file_Clamped(files, index) ==
    IF files = <<>>
    THEN [raised |-> "RuntimeError", file |-> 0]
    ELSE [raised |-> None, file |-> files[Min(index, Len(files) - 1) + 1]]

\* SampleLoader.get_file: what it raises, and the sample it returns if it
\* raises nothing
get_file(files, index) ==
    IF files = <<>>
    THEN [raised |-> "RuntimeError", file |-> 0]
    ELSE [raised |-> None, file |-> files[(index % Len(files)) + 1]]

\* answer to the POST of send_file_request; body is "clean", "empty",
\* "status_failed" (a JSON object with status FAILED) or "indicator" (text
\* holding one of the error phrases); elapsed is the time from the entry of
\* send_file_request to the answer, or to the exception
FileResponse(exc, status, body) ==
    [exc |-> exc, status |-> status, body |-> body, elapsed |-> 0]

FileResponses ==
    {FileResponse(TRUE, 0, "empty")}
    \cup {FileResponse(FALSE, st, b) :
            st \in {200, 500}, b \in {"clean", "empty", "status_failed", "indicator"}}

\* the answers used when many requests are in flight at once
RateResponses ==
    {FileResponse(TRUE, 0, "empty"), FileResponse(FALSE, 200, "clean"),
     FileResponse(FALSE, 500, "clean")}

\* the dict send_file_request returns
send_file_request(file_name, resp) ==
    IF resp.exc
    THEN [status_code |-> 0, latency_ms |-> resp.elapsed * 1000, success |-> FALSE,
          file_name |-> file_name, error |-> "exception"]
    ELSE LET is_success == resp.status = 200 /\ resp.body \in {"clean", "empty"}
         IN  [status_code |-> resp.status, latency_ms |-> resp.elapsed * 1000,
              success |-> is_success, file_name |-> file_name,
              error |-> IF is_success THEN None ELSE resp.body]

NoTestResult == [made |-> FALSE, test_mode |-> None, total_requests |-> 0,
                 successful_requests |-> 0, failed_requests |-> 0]

\* LoadTester._calculate_results on a non-empty results list
LoadTester_calculate_results(res, test_mode) ==
    [made |-> TRUE, test_mode |-> test_mode, total_requests |-> Len(res),
     successful_requests |-> Len(Successful(res)),
     failed_requests |-> Len(res) - Len(Successful(res))]

\* the LoadTester of a state machine that runs the AsyncTester only
LoadTesterUnused ==
    /\ lt_config = TestConfig(0, {}, {}, {})
    /\ lt_pc = "unused"
    /\ lt_i = 0
    /\ sample_files = <<>>
    /\ tasks = <<>>
    /\ results = <<>>
    /\ test_result = NoTestResult
    /\ lt_exit_code = {}

\* --concurrency is any int: the values below 1 are not refused by argparse
MaxNegative == 1

Configs ==
    {AsyncTestConfig(n, k, c, t, p) :
        n \in 1..MaxSamples, k \in 1..MaxFilesPerRequest,
        c \in (0 - MaxNegative)..MaxConcurrency,
        t \in 1..MaxTimeout, p \in 1..MaxInterval}

\* a samples directory without a regular file, or no directory at all
NoSampleConfigs ==
    {AsyncTestConfig(0, k, c, t, p) :
        k \in 1..MaxFilesPerRequest, c \in (0 - MaxNegative)..MaxConcurrency,
        t \in 1..MaxTimeout, p \in 1..MaxInterval}

\* config.samples_dir does not exist, is a file, or is a directory
SamplePaths == {"missing", "not_a_directory", "directory"}

AllSubmitResponses ==
    {TransportError}
    \cup {SubmitResponse(FALSE, s, j, None) :
            s \in {200, 202, 500}, j \in {"invalid", "nonobject"}}
    \cup {SubmitResponse(FALSE, s, "object", id) :
            s \in {200, 202, 500}, id \in {None, "", "job"}}

\* the answers of the submission endpoint used when several units run: one
\* for each way _submit_batch can end
RunSubmitResponses ==
    {TransportError,
     SubmitResponse(FALSE, 500, "invalid", None),
     SubmitResponse(FALSE, 200, "object", "job"),
     SubmitResponse(FALSE, 202, "invalid", None),
     SubmitResponse(FALSE, 202, "nonobject", None),
     SubmitResponse(FALSE, 202, "object", None),
     SubmitResponse(FALSE, 202, "object", "job")}

\* the answers of the status endpoint used when several units run
RunPollResponses ==
    {PollTransportError, PollResponse(FALSE, 500, "invalid", EmptyBody)}
    \cup {PollResponse(FALSE, 200, "object", StatusBody(s, FALSE, None, None, None)) :
            s \in {"running", "Finished", "failed"}}

RunLatencies == {0}

Init ==
    /\ config \in Configs \cup NoSampleConfigs
    /\ samples_path \in SamplePaths
    /\ samples_path # "directory" => config.nsamples = 0
    /\ runpc = "created"
    /\ batches = <<>>
    /\ unit = <<>>
    /\ seq_i = 1
    /\ semaphore = 0
    /\ job_results = <<>>
    /\ summary = NoSummary
    /\ net = [post |-> <<>>, get |-> <<>>]
    /\ exit_code = {}
    /\ LoadTesterUnused
    /\ RestUnused

(***************************************************************************)
(* AsyncTester.run                                                         *)
(***************************************************************************)
\* a load() that returns the empty list for a directory without a file
load_EmptyAllowed(path, nfiles) ==
    IF path = "missing" THEN "FileNotFoundError"
    ELSE IF path = "not_a_directory" THEN "NotADirectoryError"
    ELSE None

\* SampleLoader.load on a path holding nfiles regular files: the exception
\* it raises, or None when it returns the list
load(path, nfiles) ==
    IF path = "missing" THEN "FileNotFoundError"
    ELSE IF path = "not_a_directory" THEN "NotADirectoryError"
    ELSE IF nfiles = 0 THEN "ValueError"
    ELSE None

\* run up to the dispatch: samples loaded, batches cut, job_results reset;
\* in parallel mode the semaphore and one task per batch are created;
\* asyncio.Semaphore(value) raises ValueError when value < 0
RunBegin ==
    /\ runpc = "created"
    /\ IF load(samples_path, config.nsamples) # None
       THEN /\ runpc' = "raised"
            /\ exit_code' = Some(single_main("raised", summary))
            /\ UNCHANGED <<batches, unit, seq_i, semaphore, job_results, net>>
       ELSE /\ batches' = Batches(config)
            /\ seq_i' = 1
            /\ job_results' = <<>>
            /\ net' = [post |-> [b \in 1..Len(Batches(config)) |-> 0],
                       get |-> [b \in 1..Len(Batches(config)) |-> 0]]
            /\ IF ~is_sequential(config) /\ config.concurrency < 0
               THEN /\ runpc' = "raised"
                    /\ unit' = [b \in 1..Len(Batches(config)) |-> NewUnit("idle")]
                    /\ semaphore' = 0
                    /\ exit_code' = Some(single_main("raised", summary))
               ELSE /\ runpc' = "dispatch"
                    /\ unit' = [b \in 1..Len(Batches(config)) |->
                                   NewUnit(IF is_sequential(config) THEN "idle" ELSE "waiting")]
                    /\ semaphore' = IF is_sequential(config) THEN 0 ELSE config.concurrency
                    /\ UNCHANGED exit_code
    /\ UNCHANGED <<config, summary>>
    /\ UNCHANGED <<ltvars, restvars>>

\* the sequential loop giving up at the first rejected submission
Settle_StopOnRejection(i, u, sem) ==
    /\ unit' = [unit EXCEPT ![i] = u]
    /\ net' = [post |-> [net.post EXCEPT ![i] = @ + (IF u.pc = "submitting" THEN 1 ELSE 0)],
               get |-> [net.get EXCEPT ![i] = @ + (IF u.pc = "polling" THEN 1 ELSE 0)]]
    /\ IF is_sequential(config)
       THEN /\ job_results' = IF u.pc = "returned" THEN Append(job_results, u.job)
                              ELSE job_results
            /\ seq_i' = IF u.pc = "returned" THEN seq_i + 1 ELSE seq_i
            /\ runpc' = IF u.pc = "raised" \/ u.job.final_state = "SUBMIT_FAILED"
                        THEN "raised" ELSE runpc
            /\ exit_code' = IF u.pc = "raised"
                            THEN Some(single_main("raised", summary)) ELSE exit_code
            /\ semaphore' = sem
       ELSE /\ semaphore' = IF u.pc \in {"returned", "raised"} THEN sem + 1 ELSE sem
            /\ UNCHANGED <<job_results, seq_i, runpc, exit_code>>
    /\ UNCHANGED <<config, batches, summary>>
    /\ UNCHANGED <<ltvars, restvars>>

\* unit i has run up to its next await (or to its end) and is now u; sem is
\* the semaphore value it leaves apart from its own release
Settle(i, u, sem) ==
    /\ unit' = [unit EXCEPT ![i] = u]
    /\ net' = [post |-> [net.post EXCEPT ![i] = @ + (IF u.pc = "submitting" THEN 1 ELSE 0)],
               get |-> [net.get EXCEPT ![i] = @ + (IF u.pc = "polling" THEN 1 ELSE 0)]]
    /\ IF is_sequential(config)
       THEN /\ job_results' = IF u.pc = "returned" THEN Append(job_results, u.job)
                              ELSE job_results
            /\ seq_i' = IF u.pc = "returned" THEN seq_i + 1 ELSE seq_i
            /\ runpc' = IF u.pc = "raised" THEN "raised" ELSE runpc
            /\ exit_code' = IF u.pc = "raised"
                            THEN Some(single_main("raised", summary)) ELSE exit_code
            /\ semaphore' = sem
       ELSE /\ semaphore' = IF u.pc \in {"returned", "raised"} THEN sem + 1 ELSE sem
            /\ UNCHANGED <<job_results, seq_i, runpc, exit_code>>
    /\ UNCHANGED <<config, batches, summary>>
    /\ UNCHANGED <<ltvars, restvars>>

\* the sequential loop starting a batch without awaiting the one before
SeqStart_NoAwait(i, opened) ==
    /\ runpc = "dispatch"
    /\ is_sequential(config)
    /\ i \in 1..NumBatches
    /\ unit[i].pc = "idle"
    /\ Settle(i, BeginSubmit(unit[i], opened), semaphore)

\* sequential loop: result = await self._run_batch_with_polling(...), entered
SeqStart(i, opened) ==
    /\ runpc = "dispatch"
    /\ is_sequential(config)
    /\ i = seq_i
    /\ i \in 1..NumBatches
    /\ unit[i].pc = "idle"
    /\ Settle(i, BeginSubmit(unit[i], opened), semaphore)

\* limited_run entering without waiting for a free slot
Acquire_NoWait(i, opened) ==
    /\ runpc = "dispatch"
    /\ ~is_sequential(config)
    /\ i \in 1..NumBatches
    /\ unit[i].pc = "waiting"
    /\ \A j \in 1..(i - 1) : unit[j].pc # "waiting"
    /\ Settle(i, BeginSubmit(unit[i], opened), semaphore - 1)

\* limited_run: async with semaphore, entered (asyncio wakes waiters in order)
Acquire(i, opened) ==
    /\ runpc = "dispatch"
    /\ ~is_sequential(config)
    /\ i \in 1..NumBatches
    /\ unit[i].pc = "waiting"
    /\ \A j \in 1..(i - 1) : unit[j].pc # "waiting"
    /\ semaphore > 0
    /\ Settle(i, BeginSubmit(unit[i], opened), semaphore - 1)

\* the POST of unit i has answered
SubmitDone(i, resp, lat) ==
    /\ runpc = "dispatch"
    /\ i \in 1..NumBatches
    /\ unit[i].pc = "submitting"
    /\ Settle(i, EndSubmit(unit[i], config, batches[i], i, resp, lat), semaphore)

\* the GET of unit i has answered
PollDone(i, resp, lat) ==
    /\ runpc = "dispatch"
    /\ i \in 1..NumBatches
    /\ unit[i].pc = "polling"
    /\ Settle(i, PollStep(unit[i], resp, lat), semaphore)

\* await asyncio.sleep(poll_interval_seconds) of unit i is over
SleepDone(i) ==
    /\ runpc = "dispatch"
    /\ i \in 1..NumBatches
    /\ unit[i].pc = "sleeping"
    /\ Settle(i, NextAttempt([unit[i] EXCEPT !.clock = @ + config.poll_interval_seconds,
                                              !.fault = FALSE, !.sleeps = @ + 1],
                             config),
              semaphore)

\* run collecting the outcomes of the parallel units from the last batch to
\* the first
RunReturn_LastFirst ==
    /\ runpc = "dispatch"
    /\ IF is_sequential(config)
       THEN /\ seq_i = NumBatches + 1
            /\ job_results' = job_results
       ELSE /\ \A i \in 1..NumBatches : unit[i].pc = "returned"
            /\ job_results' = [i \in 1..NumBatches |-> unit[NumBatches + 1 - i].job]
    /\ summary' = _calculate_results(job_results', config.nsamples)
    /\ runpc' = "returned"
    /\ exit_code' = Some(single_main("returned", summary'))
    /\ UNCHANGED <<config, batches, unit, seq_i, semaphore, net>>
    /\ UNCHANGED <<ltvars, restvars>>

\* the loop is over, or gather has every result: run returns the summary and
\* main ends
RunReturn ==
    /\ runpc = "dispatch"
    /\ IF is_sequential(config)
       THEN /\ seq_i = NumBatches + 1
            /\ job_results' = job_results
       ELSE /\ \A i \in 1..NumBatches : unit[i].pc = "returned"
            /\ job_results' = [i \in 1..NumBatches |-> unit[i].job]
    /\ summary' = _calculate_results(job_results', config.nsamples)
    /\ runpc' = "returned"
    /\ exit_code' = Some(single_main("returned", summary'))
    /\ UNCHANGED <<config, batches, unit, seq_i, semaphore, net>>
    /\ UNCHANGED <<ltvars, restvars>>

\* gather re-raises the exception of a task: run raises and main ends; the
\* waiter woken by the release of the failed task runs before the callback
\* of gather does
RunRaise ==
    /\ runpc = "dispatch"
    /\ ~is_sequential(config)
    /\ \E i \in 1..NumBatches : unit[i].pc = "raised"
    /\ ~(semaphore > 0 /\ \E i \in 1..NumBatches : unit[i].pc = "waiting")
    /\ runpc' = "raised"
    /\ exit_code' = Some(single_main("raised", summary))
    /\ UNCHANGED <<config, batches, unit, seq_i, semaphore, job_results, summary, net>>
    /\ UNCHANGED <<ltvars, restvars>>

\* KeyboardInterrupt while asyncio.run(tester.run()) is waiting: run is
\* unwound, its unfinished units are cancelled (the batches the sequential
\* loop had not reached stay unstarted), and the handler of main prints a
\* message and exits
Interrupt ==
    /\ runpc = "dispatch"
    /\ runpc' = "interrupted"
    /\ unit' = [i \in 1..NumBatches |->
                   IF unit[i].pc \in {"idle", "returned", "raised"}
                   THEN unit[i] ELSE NewUnit("cancelled")]
    /\ exit_code' = Some(single_main("interrupted", summary))
    /\ UNCHANGED <<config, batches, seq_i, semaphore, job_results, summary, net>>
    /\ UNCHANGED <<ltvars, restvars>>

Next ==
    \/ RunBegin
    \/ \E i \in 1..NumBatches, opened \in BOOLEAN : SeqStart(i, opened)
    \/ \E i \in 1..NumBatches, opened \in BOOLEAN : Acquire(i, opened)
    \/ \E i \in 1..NumBatches, resp \in RunSubmitResponses, lat \in RunLatencies :
          SubmitDone(i, resp, lat)
    \/ \E i \in 1..NumBatches, resp \in RunPollResponses, lat \in RunLatencies :
          PollDone(i, resp, lat)
    \/ \E i \in 1..NumBatches : SleepDone(i)
    \/ RunReturn
    \/ RunRaise
    \/ Interrupt

Spec == Init /\ [][Next]_vars


(***************************************************************************)
(* LoadTester.run                                                          *)
(***************************************************************************)
Optional(S) == {{}} \cup {Some(v) : v \in S}

\* the requests a rate-limited run of r files per second for d seconds sends
RateRequests(r, d) == IF IsNone(r) \/ IsNone(d) THEN 0 ELSE Value(r) * Value(d)

TestConfigs ==
    {cfg \in {TestConfig(n, r, d, c) :
                n \in 0..MaxSampleFiles, r \in Optional(0..MaxRate),
                d \in Optional(0..MaxDuration), c \in Optional(0..MaxSequential)} :
        RateRequests(cfg.files_per_second, cfg.duration) <= MaxRequests}

\* the AsyncTester of a state machine that runs the LoadTester only
AsyncTesterUnused ==
    /\ config = AsyncTestConfig(1, 1, 1, 1, 1)
    /\ samples_path = "directory"
    /\ runpc = "unused"
    /\ batches = <<>>
    /\ unit = <<>>
    /\ seq_i = 1
    /\ semaphore = 0
    /\ job_results = <<>>
    /\ summary = NoSummary
    /\ net = [post |-> <<>>, get |-> <<>>]
    /\ exit_code = {}

InitLoad ==
    /\ AsyncTesterUnused
    /\ RestUnused
    /\ lt_config \in TestConfigs
    /\ lt_pc = "created"
    /\ lt_i = 0
    /\ sample_files = <<>>
    /\ tasks = <<>>
    /\ results = <<>>
    /\ test_result = NoTestResult
    /\ lt_exit_code = {}

\* total_requests of the active mode
total_requests(cfg) ==
    IF TestConfig_is_sequential(cfg)
    THEN Value(cfg.sequential_count)
    ELSE Value(cfg.files_per_second) * Value(cfg.duration)

\* asyncio.create_task(self._send_and_store(session, file_name, file_content))
NewTask(file_name) == [pc |-> "scheduled", file_name |-> file_name]

\* run: the samples are loaded and the mode is chosen; run_sequential sends
\* its first request, run_rate_limited creates its first task and sleeps
LtRun ==
    /\ lt_pc = "created"
    /\ LET files == [f \in 1..lt_config.samples_dir |-> f]
           raises ==
              \/ lt_config.samples_dir = 0
              \/ IF TestConfig_is_sequential(lt_config)
                 THEN Falsy(lt_config.sequential_count)
                 ELSE IF TestConfig_is_rate_limited(lt_config)
                 THEN Falsy(lt_config.files_per_second) \/ Falsy(lt_config.duration)
                 ELSE TRUE
       IN  IF raises
           THEN /\ lt_pc' = "raised"
                /\ sample_files' = IF lt_config.samples_dir = 0 THEN <<>> ELSE files
                /\ UNCHANGED tasks
           ELSE /\ sample_files' = files
                /\ IF TestConfig_is_sequential(lt_config)
                   THEN /\ lt_pc' = "sending"
                        /\ UNCHANGED tasks
                   ELSE /\ tasks' = <<NewTask(get_file(files, 0).file)>>
                        /\ lt_pc' = IF 0 < total_requests(lt_config) - 1
                                    THEN "sleeping" ELSE "gathering"
    /\ lt_i' = 0
    /\ lt_exit_code' = IF lt_pc' = "raised" THEN Some(load_test_main("raised")) ELSE {}
    /\ UNCHANGED <<lt_config, results, test_result>>
    /\ UNCHANGED <<atvars, restvars>>

\* run_sequential left by the exception of a request
LtSeqDone_Reraise(resp) ==
    /\ lt_pc = "sending"
    /\ IF resp.exc
       THEN /\ lt_pc' = "raised"
            /\ lt_exit_code' = Some(load_test_main("raised"))
            /\ UNCHANGED <<results, lt_i, test_result>>
       ELSE /\ results' = Append(results,
                                 send_file_request(get_file(sample_files, lt_i).file, resp))
            /\ IF lt_i + 1 < total_requests(lt_config)
               THEN /\ lt_i' = lt_i + 1
                    /\ UNCHANGED <<lt_pc, test_result, lt_exit_code>>
               ELSE /\ lt_pc' = "returned"
                    /\ test_result' = LoadTester_calculate_results(results', "sequential")
                    /\ lt_exit_code' = Some(load_test_main("returned"))
                    /\ UNCHANGED lt_i
    /\ UNCHANGED <<lt_config, sample_files, tasks>>
    /\ UNCHANGED <<atvars, restvars>>

\* run_sequential: the request of iteration i has answered; the result is
\* appended and the next request is sent, or the summary is computed
LtSeqDone(resp) ==
    /\ lt_pc = "sending"
    /\ results' = Append(results,
                         send_file_request(get_file(sample_files, lt_i).file, resp))
    /\ IF lt_i + 1 < total_requests(lt_config)
       THEN /\ lt_i' = lt_i + 1
            /\ UNCHANGED <<lt_pc, test_result, lt_exit_code>>
       ELSE /\ lt_pc' = "returned"
            /\ test_result' = LoadTester_calculate_results(results', "sequential")
            /\ lt_exit_code' = Some(load_test_main("returned"))
            /\ UNCHANGED lt_i
    /\ UNCHANGED <<lt_config, sample_files, tasks>>
    /\ UNCHANGED <<atvars, restvars>>

\* run_rate_limited: asyncio.sleep(request_interval) is over; the next task is
\* created, and the loop sleeps again or goes on to gather
LtTimer ==
    /\ lt_pc = "sleeping"
    /\ lt_i' = lt_i + 1
    /\ tasks' = Append(tasks, NewTask(get_file(sample_files, lt_i + 1).file))
    /\ lt_pc' = IF lt_i + 1 < total_requests(lt_config) - 1
                THEN "sleeping" ELSE "gathering"
    /\ UNCHANGED <<lt_config, sample_files, results, test_result, lt_exit_code>>
    /\ UNCHANGED <<atvars, restvars>>

\* _send_and_store of task t runs up to the await of its POST
LtTaskStart(t) ==
    /\ lt_pc \in {"sleeping", "gathering"}
    /\ t \in 1..Len(tasks)
    /\ tasks[t].pc = "scheduled"
    /\ tasks' = [tasks EXCEPT ![t].pc = "sending"]
    /\ UNCHANGED <<lt_config, lt_pc, lt_i, sample_files, results, test_result, lt_exit_code>>
    /\ UNCHANGED <<atvars, restvars>>

\* the POST of task t has answered: the result is stored
LtTaskDone(t, resp) ==
    /\ lt_pc \in {"sleeping", "gathering"}
    /\ t \in 1..Len(tasks)
    /\ tasks[t].pc = "sending"
    /\ results' = Append(results, send_file_request(tasks[t].file_name, resp))
    /\ tasks' = [tasks EXCEPT ![t].pc = "done"]
    /\ UNCHANGED <<lt_config, lt_pc, lt_i, sample_files, test_result, lt_exit_code>>
    /\ UNCHANGED <<atvars, restvars>>

\* run_rate_limited going on without awaiting the gather
LtGatherDone_NoWait ==
    /\ lt_pc = "gathering"
    /\ lt_pc' = "returned"
    /\ test_result' = LoadTester_calculate_results(results, "rate_limited")
    /\ lt_exit_code' = Some(load_test_main("returned"))
    /\ UNCHANGED <<lt_config, lt_i, sample_files, tasks, results>>
    /\ UNCHANGED <<atvars, restvars>>

\* await asyncio.gather(*tasks) has every task done: the summary is computed
LtGatherDone ==
    /\ lt_pc = "gathering"
    /\ \A t \in 1..Len(tasks) : tasks[t].pc = "done"
    /\ lt_pc' = "returned"
    /\ test_result' = LoadTester_calculate_results(results, "rate_limited")
    /\ lt_exit_code' = Some(load_test_main("returned"))
    /\ UNCHANGED <<lt_config, lt_i, sample_files, tasks, results>>
    /\ UNCHANGED <<atvars, restvars>>

\* KeyboardInterrupt while asyncio.run(tester.run()) is waiting: run is
\* unwound with its tasks; the handler of main prints the results gathered so
\* far, if there are any, and main ends
LtInterrupt ==
    /\ lt_pc \in {"sending", "sleeping", "gathering"}
    /\ lt_pc' = "interrupted"
    /\ tasks' = <<>>
    /\ test_result' = IF results # <<>>
                       THEN LoadTester_calculate_results(results, "interrupted")
                       ELSE test_result
    /\ lt_exit_code' = Some(load_test_main("interrupted"))
    /\ UNCHANGED <<lt_config, lt_i, sample_files, results>>
    /\ UNCHANGED <<atvars, restvars>>

NextLoad ==
    \/ LtRun
    \/ \E resp \in FileResponses : LtSeqDone(resp)
    \/ LtTimer
    \/ \E t \in 1..Len(tasks) : LtTaskStart(t)
    \/ \E t \in 1..Len(tasks), resp \in RateResponses : LtTaskDone(t, resp)
    \/ LtGatherDone
    \/ LtInterrupt

SpecLoad == InitLoad /\ [][NextLoad]_vars

(***************************************************************************)
(* The SampleLoader of one LoadTester: the requests of a run, and get_file *)
(* called on the loader before run and after it                            *)
(***************************************************************************)
MaxIndex == 3

\* every request of the run is answered alike
LoaderResponses == {FileResponse(FALSE, 200, "clean")}

\* tester.sample_loader.get_file(index) while run is not on the stack
GetFile(index) ==
    /\ lt_pc \in {"created", "raised", "returned"}
    /\ got' = Some([index |-> index, outcome |-> get_file(sample_files, index)])
    /\ UNCHANGED <<samples_path, atvars, ltvars, pctvars, calcvars, sweepvars, dsvars, namevars, suite>>

NextLoader ==
    \/ LtRun
    \/ \E resp \in LoaderResponses : LtSeqDone(resp)
    \/ LtTimer
    \/ \E t \in 1..Len(tasks) : LtTaskStart(t)
    \/ \E t \in 1..Len(tasks), resp \in LoaderResponses : LtTaskDone(t, resp)
    \/ LtGatherDone
    \/ \E index \in 0..MaxIndex : GetFile(index)

SpecLoader == InitLoad /\ [][NextLoader]_vars

(***************************************************************************)
(* run_test_suite: one rate-limited LoadTester per rate, one after another *)
(***************************************************************************)
MaxSuiteTests == 2
MaxSuiteRate == 2

\* duration of every test of the suite
SuiteDuration == 1

TestRates ==
    UNION {[1..n -> 0..MaxSuiteRate] : n \in 1..MaxSuiteTests}

SuiteResponses == {FileResponse(TRUE, 0, "empty"), FileResponse(FALSE, 200, "clean")}

\* the fields of the TestResult that _calculate_results builds which the
\* suite reads
TestResultOf(tr, cfg) ==
    [test_mode |-> tr.test_mode, total_requests |-> tr.total_requests,
     successful_requests |-> tr.successful_requests,
     failed_requests |-> tr.failed_requests,
     error_rate |-> FloatMul(FloatDiv(tr.failed_requests, tr.total_requests), 100),
     target_files_per_second |-> Value(cfg.files_per_second)]

\* failed_result of the except branch
failed_result(files_per_second) ==
    [test_mode |-> "rate_limited", total_requests |-> 0, successful_requests |-> 0,
     failed_requests |-> 0, error_rate |-> FloatOfInt(100),
     target_files_per_second |-> files_per_second]

InitSuite ==
    /\ AsyncTesterUnused
    /\ LoadTesterUnused
    /\ PercentileUnused
    /\ CalcUnused
    /\ SweepUnused
    /\ DsUnused
    /\ NamesUnused
    /\ got = NoCall
    /\ suite \in {[pc |-> "loop", samples_dir |-> n, test_rates |-> t, i |-> 0,
                    outcomes |-> <<>>, results |-> <<>>] :
                      n \in 0..1, t \in TestRates}

\* an iteration of the loop up to await tester.run(): the config and the
\* tester of rate test_rates[i] are made
SuiteTest ==
    /\ suite.pc = "loop"
    /\ suite.i < Len(suite.test_rates)
    /\ suite' = [suite EXCEPT !.pc = "testing"]
    /\ lt_config' = TestConfig(suite.samples_dir, Some(suite.test_rates[suite.i + 1]),
                               Some(SuiteDuration), {})
    /\ lt_pc' = "created"
    /\ lt_i' = 0
    /\ sample_files' = <<>>
    /\ tasks' = <<>>
    /\ results' = <<>>
    /\ test_result' = NoTestResult
    /\ lt_exit_code' = {}
    /\ UNCHANGED <<samples_path, atvars, pctvars, calcvars, sweepvars, dsvars, namevars, got>>

\* the suite given up at the first test that raises
SuiteCollect_Abort ==
    /\ suite.pc = "testing"
    /\ lt_pc \in {"returned", "raised"}
    /\ suite' = IF lt_pc = "returned"
                THEN [suite EXCEPT !.pc = "loop", !.i = @ + 1,
                                   !.outcomes = Append(@, "returned"),
                                   !.results = Append(@, TestResultOf(test_result, lt_config))]
                ELSE [suite EXCEPT !.pc = "raised", !.outcomes = Append(@, "raised")]
    /\ lt_pc' = "unused"
    /\ lt_exit_code' = {}
    /\ UNCHANGED <<lt_config, lt_i, sample_files, tasks, results, test_result>>
    /\ UNCHANGED <<samples_path, atvars, pctvars, calcvars, sweepvars, dsvars, namevars, got>>

\* tester.run() has returned or raised: the result, or failed_result, is
\* added to the aggregator and the loop goes on
SuiteCollect ==
    /\ suite.pc = "testing"
    /\ lt_pc \in {"returned", "raised"}
    /\ suite' = [suite EXCEPT
                    !.pc = "loop", !.i = @ + 1,
                    !.outcomes = Append(@, lt_pc),
                    !.results =
                        Append(@, IF lt_pc = "returned"
                                  THEN TestResultOf(test_result, lt_config)
                                  ELSE failed_result(suite.test_rates[suite.i + 1]))]
    /\ lt_pc' = "unused"
    /\ lt_exit_code' = {}
    /\ UNCHANGED <<lt_config, lt_i, sample_files, tasks, results, test_result>>
    /\ UNCHANGED <<samples_path, atvars, pctvars, calcvars, sweepvars, dsvars, namevars, got>>

\* return aggregator.results
SuiteReturn ==
    /\ suite.pc = "loop"
    /\ suite.i = Len(suite.test_rates)
    /\ suite' = [suite EXCEPT !.pc = "returned"]
    /\ UNCHANGED <<samples_path, atvars, ltvars, pctvars, calcvars, sweepvars, dsvars, namevars, got>>

NextSuite ==
    \/ SuiteTest
    \/ LtRun
    \/ LtTimer
    \/ \E t \in 1..Len(tasks) : LtTaskStart(t)
    \/ \E t \in 1..Len(tasks), resp \in SuiteResponses : LtTaskDone(t, resp)
    \/ LtGatherDone
    \/ SuiteCollect
    \/ SuiteReturn

SpecSuite == InitSuite /\ [][NextSuite]_vars

(***************************************************************************)
(* run_sequential alone: requests that take time and end in every way      *)
(***************************************************************************)
SendConfigs ==
    {TestConfig(n, {}, {}, Some(c)) : n \in 1..MaxSampleFiles, c \in 1..MaxSequential}

SendResponses ==
    {[r EXCEPT !.elapsed = l] :
        r \in {FileResponse(TRUE, 0, "empty"), FileResponse(FALSE, 200, "clean"),
               FileResponse(FALSE, 200, "indicator"), FileResponse(FALSE, 500, "clean")},
        l \in 0..MaxLatency}

InitSend ==
    /\ AsyncTesterUnused
    /\ RestUnused
    /\ lt_config \in SendConfigs
    /\ lt_pc = "created"
    /\ lt_i = 0
    /\ sample_files = <<>>
    /\ tasks = <<>>
    /\ results = <<>>
    /\ test_result = NoTestResult
    /\ lt_exit_code = {}

NextSend ==
    \/ LtRun
    \/ \E resp \in SendResponses : LtSeqDone(resp)

SpecSend == InitSend /\ [][NextSend]_vars

(***************************************************************************)
(* One job, polled alone: every shape of status answer, and requests that  *)
(* take time.                                                              *)
(***************************************************************************)
PollConfigs ==
    {AsyncTestConfig(1, 1, 1, t, p) : t \in 1..MaxPollTimeout, p \in 1..MaxPollInterval}

StateValues == {None, "", "running", "Finished", "FAILED"}

\* the spellings of the state the server answers in the member "state"
LabelValues ==
    {"finished", "Finished", "FINISHED", "completed", "Completed",
     "successful", "SUCCESSFUL", "done", "DONE",
     "failed", "FAILED", "cancelled", "Cancelled",
     "running", "RUNNING", "finishing", "queued"}

\* 200 with a JSON object whose only state member is "state": s
LabelAnswer(s) ==
    PollResponse(FALSE, 200, "object", StatusBody(s, FALSE, None, None, None))

AllPollResponses ==
    {PollTransportError}
    \cup {PollResponse(FALSE, 500, "invalid", EmptyBody),
          PollResponse(FALSE, 200, "invalid", EmptyBody),
          PollResponse(FALSE, 200, "nonobject", EmptyBody)}
    \cup {PollResponse(FALSE, 200, "object", StatusBody(s, FALSE, None, None, None)) :
            s \in StateValues}
    \cup {PollResponse(FALSE, 200, "object", StatusBody(None, TRUE, s, None, None)) :
            s \in StateValues}
    \cup {PollResponse(FALSE, 200, "object", StatusBody(None, FALSE, None, s, None)) :
            s \in StateValues}
    \cup {PollResponse(FALSE, 200, "object", StatusBody(None, FALSE, None, None, s)) :
            s \in StateValues}
    \cup {LabelAnswer(s) : s \in LabelValues}

Latencies == 0..MaxLatency

InitPoll ==
    /\ config \in PollConfigs
    /\ samples_path = "directory"
    /\ runpc = "created"
    /\ batches = <<>>
    /\ unit = <<>>
    /\ seq_i = 1
    /\ semaphore = 0
    /\ job_results = <<>>
    /\ summary = NoSummary
    /\ net = [post |-> <<>>, get |-> <<>>]
    /\ exit_code = {}
    /\ LoadTesterUnused
    /\ RestUnused

NextPoll ==
    \/ RunBegin
    \/ \E opened \in BOOLEAN : SeqStart(1, opened)
    \/ \E resp \in AllSubmitResponses, lat \in Latencies : SubmitDone(1, resp, lat)
    \/ \E resp \in AllPollResponses, lat \in Latencies : PollDone(1, resp, lat)
    \/ SleepDone(1)
    \/ RunReturn

SpecPoll == InitPoll /\ [][NextPoll]_vars

(***************************************************************************)
(* One job, polled alone: every combination of the four places of the      *)
(* state in the status answer.                                             *)
(***************************************************************************)
MaxStateAttempts == 2

StateConfigs == {AsyncTestConfig(1, 1, 1, t, 1) : t \in 1..MaxStateAttempts}

StateResponses ==
    {PollTransportError}
    \cup {PollResponse(FALSE, 200, "object", StatusBody(s, jp, js, st, jS)) :
            s \in StateValues, jp \in BOOLEAN, js \in StateValues,
            st \in StateValues, jS \in StateValues}

InitState ==
    /\ config \in StateConfigs
    /\ samples_path = "directory"
    /\ runpc = "created"
    /\ batches = <<>>
    /\ unit = <<>>
    /\ seq_i = 1
    /\ semaphore = 0
    /\ job_results = <<>>
    /\ summary = NoSummary
    /\ net = [post |-> <<>>, get |-> <<>>]
    /\ exit_code = {}
    /\ LoadTesterUnused
    /\ RestUnused

NextState ==
    \/ RunBegin
    \/ SeqStart(1, TRUE)
    \/ SubmitDone(1, SubmitResponse(FALSE, 202, "object", "job"), 0)
    \/ \E resp \in StateResponses : PollDone(1, resp, 0)
    \/ SleepDone(1)
    \/ RunReturn

SpecState == InitState /\ [][NextState]_vars


(***************************************************************************)
(* One job, polled alone: the states it goes through, spelled in two ways, *)
(* given as a number, or missing                                           *)
(***************************************************************************)
MaxStageAttempts == 3

StageConfigs == {AsyncTestConfig(1, 1, 1, t, 1) : t \in 1..MaxStageAttempts}

StageAnswers ==
    {PollTransportError}
    \cup {LabelAnswer(s) : s \in {None, "running", "RUNNING", NumberState, "Finished"}}

InitStages ==
    /\ config \in StageConfigs
    /\ samples_path = "directory"
    /\ runpc = "created"
    /\ batches = <<>>
    /\ unit = <<>>
    /\ seq_i = 1
    /\ semaphore = 0
    /\ job_results = <<>>
    /\ summary = NoSummary
    /\ net = [post |-> <<>>, get |-> <<>>]
    /\ exit_code = {}
    /\ LoadTesterUnused
    /\ RestUnused

NextStages ==
    \/ RunBegin
    \/ SeqStart(1, TRUE)
    \/ SubmitDone(1, SubmitResponse(FALSE, 202, "object", "job"), 0)
    \/ \E resp \in StageAnswers, lat \in Latencies : PollDone(1, resp, lat)
    \/ SleepDone(1)
    \/ RunReturn

SpecStages == InitStages /\ [][NextStages]_vars

(***************************************************************************)
(* AsyncTester.run with concurrency K >= 1, left to run: nothing interrupts *)
(* it, every request comes back and every sleep ends.  The event loop runs  *)
(* every callback that is ready, so a step that stays possible is taken:    *)
(* weak fairness of each step, of which the fairness of NextFair is a       *)
(* consequence.                                                             *)
(***************************************************************************)
MaxFairBatches == 4

\* two slots at most, one or two poll attempts
FairConfigs ==
    {AsyncTestConfig(n, 1, c, t, 1) :
        n \in 1..MaxFairBatches, c \in {1, 2}, t \in {1, 2}}

FairSubmitResponses ==
    {TransportError, SubmitResponse(FALSE, 202, "object", "job")}

FairPollResponses ==
    {PollResponse(FALSE, 200, "object", StatusBody(s, FALSE, None, None, None)) :
        s \in {"running", "Finished"}}

InitFair ==
    /\ config \in FairConfigs
    /\ samples_path = "directory"
    /\ runpc = "created"
    /\ batches = <<>>
    /\ unit = <<>>
    /\ seq_i = 1
    /\ semaphore = 0
    /\ job_results = <<>>
    /\ summary = NoSummary
    /\ net = [post |-> <<>>, get |-> <<>>]
    /\ exit_code = {}
    /\ LoadTesterUnused
    /\ RestUnused

NextFair ==
    \/ RunBegin
    \/ \E i \in 1..NumBatches : SeqStart(i, TRUE)
    \/ \E i \in 1..NumBatches : Acquire(i, TRUE)
    \/ \E i \in 1..NumBatches, resp \in FairSubmitResponses : SubmitDone(i, resp, 0)
    \/ \E i \in 1..NumBatches, resp \in FairPollResponses : PollDone(i, resp, 0)
    \/ \E i \in 1..NumBatches : SleepDone(i)
    \/ RunReturn
    \/ RunRaise

SpecFair == InitFair /\ [][NextFair]_vars /\ WF_vars(NextFair)

(***************************************************************************)
(* _calculate_percentile, called on a list of values                       *)
(***************************************************************************)
MaxValues == 3
MaxValue == 2
MaxPercentile == 100

RECURSIVE Lists(_, _)
\* the lists of at most n elements of S
Lists(S, n) ==
    IF n = 0 THEN {<<>>}
    ELSE Lists(S, n - 1) \cup {Append(l, x) : l \in {m \in Lists(S, n - 1) : Len(m) = n - 1}, x \in S}

InitPct ==
    /\ AsyncTesterUnused
    /\ LoadTesterUnused
    /\ values \in Lists(0..MaxValue, MaxValues)
    /\ percentile \in 0..MaxPercentile
    /\ pvalue = {}
    /\ CalcUnused
    /\ SweepUnused
    /\ DsUnused
    /\ NamesUnused
    /\ got = NoCall
    /\ suite = NoSuite

CalculatePercentile ==
    /\ pvalue' = Some(_calculate_percentile(values, percentile))
    /\ UNCHANGED <<values, percentile>>
    /\ UNCHANGED <<samples_path, atvars, ltvars, calcvars, sweepvars, dsvars, namevars, got, suite>>

NextPct == CalculatePercentile

SpecPct == InitPct /\ [][NextPct]_vars

(***************************************************************************)
(* _calculate_results, called on a list of outcomes                        *)
(***************************************************************************)
MaxJobs == 3
MaxWallClock == 2

\* the outcomes _run_batch_with_polling returns for batch b of k files: a
\* job that ended Finished or failed after one poll and one second, one
\* that timed out, a rejected submission
Outcomes(b) ==
    LET Submitted(k) == JobResult("job", b, k, SampleFileSize * k, 0, 0, 0, "SUBMITTED", None)
    IN  {Finalize(Submitted(k), 0, 1, 1, "Finished", TRUE, None) : k \in 1..MaxFilesPerRequest}
        \cup {Finalize(Submitted(k), 0, 1, 1, "failed", FALSE, "Job ended with state") :
                k \in 1..MaxFilesPerRequest}
        \cup {TimedOut(Submitted(1), 0, 1, 1)}
        \cup {JobResult(None, b, 1, SampleFileSize, 0, 0, 0, "SUBMIT_FAILED", "HTTP error")}

\* the outcomes l as the results of the batches 1..Len(l)
InBatchOrder(l) == [b \in 1..Len(l) |-> [l[b] EXCEPT !.batch_id = b]]

\* job_results of a run of at most MaxJobs batches, in batch order
OutcomeLists ==
    UNION {[1..n -> Outcomes(0)] : n \in 0..MaxJobs}

\* run at line 409: the results are collected, end_time is read
InitCalc ==
    /\ \E l \in OutcomeLists :
          /\ job_results = InBatchOrder(l)
          /\ config = AsyncTestConfig(SumFiles(l), MaxFilesPerRequest, 1, 1, 1)
    /\ samples_path = "directory"
    /\ runpc = "collected"
    /\ batches = <<>>
    /\ unit = <<>>
    /\ seq_i = 1
    /\ semaphore = 0
    /\ summary = NoSummary
    /\ net = [post |-> <<>>, get |-> <<>>]
    /\ exit_code = {}
    /\ LoadTesterUnused
    /\ PercentileUnused
    /\ SweepUnused
    /\ DsUnused
    /\ NamesUnused
    /\ got = NoCall
    /\ suite = NoSuite
    /\ total_duration \in 0..MaxWallClock
    /\ throughput = Ratio(0, 1)
    /\ rate = FloatZero
    /\ calls = 0

\* a call of _calculate_results that empties job_results
CalculateResults_Draining ==
    /\ runpc \in {"collected", "returned"}
    /\ calls < 2
    /\ calls' = calls + 1
    /\ summary' = _calculate_results(job_results, config.nsamples)
    /\ throughput' = throughput_files(job_results, total_duration)
    /\ rate' = error_rate_float(job_results)
    /\ runpc' = "returned"
    /\ job_results' = <<>>
    /\ UNCHANGED <<config, batches, unit, seq_i, semaphore, net, exit_code>>
    /\ UNCHANGED <<samples_path, total_duration, ltvars, pctvars, sweepvars, dsvars, namevars, got, suite>>

\* a call of _calculate_results on the collected results: the first by run,
\* a second one on the same object
CalculateResults ==
    /\ runpc \in {"collected", "returned"}
    /\ calls < 2
    /\ calls' = calls + 1
    /\ summary' = _calculate_results(job_results, config.nsamples)
    /\ throughput' = throughput_files(job_results, total_duration)
    /\ rate' = error_rate_float(job_results)
    /\ runpc' = "returned"
    /\ UNCHANGED <<config, batches, unit, seq_i, semaphore, job_results, net, exit_code>>
    /\ UNCHANGED <<samples_path, total_duration, ltvars, pctvars, sweepvars, dsvars, namevars, got, suite>>

NextCalc == CalculateResults

SpecCalc == InitCalc /\ [][NextCalc]_vars

(***************************************************************************)
(* FileSizeSweep.run: one AsyncTester run per directory, then the          *)
(* aggregates                                                              *)
(***************************************************************************)
MaxStages == 2
MaxStageJobs == 2

\* the outcomes of the jobs of a stage: one file each, the job Finished,
\* failed or timed out
StageOutcomes ==
    LET Submitted == JobResult("job", 0, 1, SampleFileSize, 0, 0, 0, "SUBMITTED", None)
    IN  {Finalize(Submitted, 0, 1, 1, "Finished", TRUE, None),
         Finalize(Submitted, 0, 1, 1, "failed", FALSE, "Job ended with state"),
         TimedOut(Submitted, 0, 1, 1)}

\* the job_results of a stage whose run returned: at least one batch
StageLists == UNION {[1..n -> StageOutcomes] : n \in 1..MaxStageJobs}

RECURSIVE SumField(_, _)
\* sum(r.<field> for r in stage_results)
SumField(seq, field) ==
    IF seq = <<>> THEN 0 ELSE Head(seq)[field] + SumField(Tail(seq), field)

RECURSIVE ProdJobs(_)
ProdJobs(seq) == IF seq = <<>> THEN 1 ELSE Head(seq).total_jobs * ProdJobs(Tail(seq))

RECURSIVE SumRates(_, _)
\* the sum of the stage error rates, as a multiple of 1 / den
SumRates(seq, den) ==
    IF seq = <<>> THEN 0
    ELSE (Head(seq).failed_jobs + Head(seq).timed_out_jobs) * 100
            * (den \div Head(seq).total_jobs)
         + SumRates(Tail(seq), den)

\* the average of the error rates of the stages
overall_error_rate_Average(res) ==
    IF res = <<>> THEN FloatZero
    ELSE FloatDiv(SumRates(res, ProdJobs(res)), Len(res) * ProdJobs(res))

\* overall_error_rate = (failed_jobs / total_jobs * 100)
\*                      if total_jobs > 0 else 0.0
overall_error_rate(res) ==
    LET total_jobs == SumField(res, "total_jobs")
        failed_jobs == SumField(res, "failed_jobs") + SumField(res, "timed_out_jobs")
    IN  IF total_jobs > 0
        THEN FloatMul(FloatDiv(failed_jobs, total_jobs), 100)
        ELSE FloatZero

\* the AsyncTestResult of the stage of directory dir: the summary of the
\* outcomes l with samples_dir of the stage config
StageSummary(dir, l) ==
    [samples_dir |-> dir] @@ _calculate_results(InBatchOrder(l), Len(l))

\* aggregator.results when run is called: empty, or the result of an
\* earlier run of the same FileSizeSweep
EarlierResults == {<<>>} \cup {<<StageSummary(1, l)>> : l \in [1..1 -> StageOutcomes]}

InitSweep ==
    /\ AsyncTesterUnused
    /\ LoadTesterUnused
    /\ PercentileUnused
    /\ CalcUnused
    /\ DsUnused
    /\ NamesUnused
    /\ got = NoCall
    /\ suite = NoSuite
    /\ directories \in 0..MaxStages
    /\ sweep_pc = "created"
    /\ sweep_i = 1
    /\ stage_results = <<>>
    /\ sweep_result = NoSweepResult
    /\ stage_runs = <<>>
    /\ aggregator \in EarlierResults

\* run up to the loop over the directories: self.aggregator.clear()
SweepBegin ==
    /\ sweep_pc = "created"
    /\ sweep_pc' = "stages"
    /\ aggregator' = <<>>
    /\ stage_results' = <<>>
    /\ sweep_i' = 1
    /\ UNCHANGED <<directories, sweep_result, stage_runs>>
    /\ UNCHANGED <<samples_path, atvars, ltvars, pctvars, calcvars, dsvars, namevars, got, suite>>

\* one stage whose tester.run() returned the summary of the outcomes l
SweepStage(l) ==
    /\ sweep_pc = "stages"
    /\ sweep_i <= directories
    /\ LET result == StageSummary(sweep_i, l)
       IN  /\ stage_runs' = Append(stage_runs, [raised |-> FALSE, result |-> result])
           /\ stage_results' = Append(stage_results, result)
           /\ aggregator' = Append(aggregator, result)
    /\ sweep_i' = sweep_i + 1
    /\ UNCHANGED <<directories, sweep_pc, sweep_result>>
    /\ UNCHANGED <<samples_path, atvars, ltvars, pctvars, calcvars, dsvars, namevars, got, suite>>

\* a stage whose exception ends the loop over the directories
SweepStageRaised_Abort ==
    /\ sweep_pc = "stages"
    /\ sweep_i <= directories
    /\ stage_runs' = Append(stage_runs, [raised |-> TRUE, result |-> NoSummary])
    /\ sweep_i' = directories + 1
    /\ UNCHANGED <<directories, sweep_pc, stage_results, sweep_result, aggregator>>
    /\ UNCHANGED <<samples_path, atvars, ltvars, pctvars, calcvars, dsvars, namevars, got, suite>>

\* one stage whose tester.run() raised: logged, the next directory follows
SweepStageRaised ==
    /\ sweep_pc = "stages"
    /\ sweep_i <= directories
    /\ stage_runs' = Append(stage_runs, [raised |-> TRUE, result |-> NoSummary])
    /\ sweep_i' = sweep_i + 1
    /\ UNCHANGED <<directories, sweep_pc, stage_results, sweep_result, aggregator>>
    /\ UNCHANGED <<samples_path, atvars, ltvars, pctvars, calcvars, dsvars, namevars, got, suite>>

\* the aggregates and the SweepResult
SweepReturn ==
    /\ sweep_pc = "stages"
    /\ sweep_i = directories + 1
    /\ sweep_result' = [made |-> TRUE,
                        total_files_processed |-> SumField(stage_results, "total_files"),
                        overall_error_rate |-> overall_error_rate(stage_results)]
    /\ sweep_pc' = "returned"
    /\ UNCHANGED <<directories, sweep_i, stage_results, stage_runs, aggregator>>
    /\ UNCHANGED <<samples_path, atvars, ltvars, pctvars, calcvars, dsvars, namevars, got, suite>>

NextSweep ==
    \/ SweepBegin
    \/ \E l \in StageLists : SweepStage(l)
    \/ SweepStageRaised
    \/ SweepReturn

SpecSweep == InitSweep /\ [][NextSweep]_vars

(***************************************************************************)
(* DatasourceSweep.run_sequential_sweep: per datasource count, a container *)
(* is started, a LoadTester runs against it, the container is stopped.     *)
(* run_rate_limited_sweep has the same loop.                               *)
(***************************************************************************)
MaxCounts == 2
MaxSweepFiles == 2

NoStage == [run_calls |-> 0, started |-> FALSE, waited |-> FALSE, requests |-> 0,
            test |-> "none", stop_calls |-> 0, stopped |-> FALSE, removed |-> FALSE]

InitDs ==
    /\ AsyncTesterUnused
    /\ LoadTesterUnused
    /\ PercentileUnused
    /\ CalcUnused
    /\ SweepUnused
    /\ NamesUnused
    /\ got = NoCall
    /\ suite = NoSuite
    /\ ds_counts \in 1..MaxCounts
    /\ ds_files \in 1..MaxSweepFiles
    /\ ds_pc = "created"
    /\ ds_i = 1
    /\ ds_exc = FALSE
    /\ ds_results = 0
    /\ docker = NoContainer
    /\ ds_log = [k \in 1..ds_counts |-> NoStage]

\* run_sequential_sweep up to the first pass of "for count in counts"
DsBegin ==
    /\ ds_pc = "created"
    /\ ds_pc' = "stage"
    /\ ds_results' = 0
    /\ UNCHANGED <<ds_counts, ds_files, ds_i, ds_exc, docker, ds_log>>
    /\ UNCHANGED <<samples_path, atvars, ltvars, pctvars, calcvars, sweepvars, namevars, got, suite>>

\* container(): start() up to the end of "docker run"; docker refuses a name
\* that is in use, and ok tells whether it accepts otherwise; on a non-zero
\* return code start raises and the finally clause of container() follows
DsDockerRun(ok) ==
    /\ ds_pc = "stage"
    /\ IF ok /\ docker.state = "absent"
       THEN /\ docker' = [state |-> "running", stage |-> ds_i]
            /\ ds_log' = [ds_log EXCEPT ![ds_i].run_calls = @ + 1, ![ds_i].started = TRUE]
            /\ ds_pc' = "waiting"
            /\ UNCHANGED ds_exc
       ELSE /\ ds_log' = [ds_log EXCEPT ![ds_i].run_calls = @ + 1]
            /\ ds_pc' = "stopping"
            /\ ds_exc' = TRUE
            /\ UNCHANGED docker
    /\ UNCHANGED <<ds_counts, ds_files, ds_i, ds_results>>
    /\ UNCHANGED <<samples_path, atvars, ltvars, pctvars, calcvars, sweepvars, namevars, got, suite>>

\* time.sleep(startup_wait_seconds) is over: start returns, the with block
\* is entered, the LoadTester is built and run() is called
DsWaitDone ==
    /\ ds_pc = "waiting"
    /\ ds_pc' = "testing"
    /\ ds_log' = [ds_log EXCEPT ![ds_i].waited = TRUE]
    /\ UNCHANGED <<ds_counts, ds_files, ds_i, ds_exc, ds_results, docker>>
    /\ UNCHANGED <<samples_path, atvars, ltvars, pctvars, calcvars, sweepvars, namevars, got, suite>>

\* tester.run(): one more request of the sequential run is sent
DsRequest ==
    /\ ds_pc = "testing"
    /\ ds_log[ds_i].requests < ds_files
    /\ ds_log' = [ds_log EXCEPT ![ds_i].requests = @ + 1]
    /\ UNCHANGED <<ds_counts, ds_files, ds_pc, ds_i, ds_exc, ds_results, docker>>
    /\ UNCHANGED <<samples_path, atvars, ltvars, pctvars, calcvars, sweepvars, namevars, got, suite>>

\* tester.run() returns its result after the last request: the result is
\* appended and the with block is left
DsTestReturn ==
    /\ ds_pc = "testing"
    /\ ds_log[ds_i].requests = ds_files
    /\ ds_log' = [ds_log EXCEPT ![ds_i].test = "returned"]
    /\ ds_results' = ds_results + 1
    /\ ds_pc' = "stopping"
    /\ ds_exc' = FALSE
    /\ UNCHANGED <<ds_counts, ds_files, ds_i, docker>>
    /\ UNCHANGED <<samples_path, atvars, ltvars, pctvars, calcvars, sweepvars, namevars, got, suite>>

\* a container() whose stop() is not in a finally clause
DsTestRaise_NoFinally ==
    /\ ds_pc = "testing"
    /\ ds_log' = [ds_log EXCEPT ![ds_i].test = "raised"]
    /\ ds_pc' = "raised"
    /\ ds_exc' = TRUE
    /\ UNCHANGED <<ds_counts, ds_files, ds_i, ds_results, docker>>
    /\ UNCHANGED <<samples_path, atvars, ltvars, pctvars, calcvars, sweepvars, namevars, got, suite>>

\* tester.run() raises (the samples cannot be loaded, the run is
\* interrupted): the with block is left by the exception
DsTestRaise ==
    /\ ds_pc = "testing"
    /\ ds_log' = [ds_log EXCEPT ![ds_i].test = "raised"]
    /\ ds_pc' = "stopping"
    /\ ds_exc' = TRUE
    /\ UNCHANGED <<ds_counts, ds_files, ds_i, ds_results, docker>>
    /\ UNCHANGED <<samples_path, atvars, ltvars, pctvars, calcvars, sweepvars, namevars, got, suite>>

\* what "docker stop" (accepted or not) and then "docker rm" (accepted or
\* not) make of the container: rm refuses a running container
AfterStop(c, stop_ok, rm_ok) ==
    LET c1 == IF c.state = "running" /\ stop_ok THEN [c EXCEPT !.state = "exited"] ELSE c
    IN  IF c1.state = "exited" /\ rm_ok THEN NoContainer ELSE c1

\* the finally clause of container(): stop(), whose failures are logged;
\* then the exception goes on and ends the sweep, or the loop goes on
DsStop(stop_ok, rm_ok) ==
    /\ ds_pc = "stopping"
    /\ docker' = AfterStop(docker, stop_ok, rm_ok)
    /\ ds_log' = [ds_log EXCEPT ![ds_i].stop_calls = @ + 1,
                                ![ds_i].stopped = docker.state = "running" /\ stop_ok,
                                ![ds_i].removed = docker'.state = "absent"]
    /\ IF ds_exc THEN /\ ds_pc' = "raised"
                      /\ UNCHANGED ds_i
       ELSE IF ds_i < ds_counts THEN /\ ds_pc' = "stage"
                                     /\ ds_i' = ds_i + 1
       ELSE /\ ds_pc' = "returned"
            /\ UNCHANGED ds_i
    /\ UNCHANGED <<ds_counts, ds_files, ds_exc, ds_results>>
    /\ UNCHANGED <<samples_path, atvars, ltvars, pctvars, calcvars, sweepvars, namevars, got, suite>>

NextDs ==
    \/ DsBegin
    \/ \E ok \in BOOLEAN : DsDockerRun(ok)
    \/ DsWaitDone
    \/ DsRequest
    \/ DsTestReturn
    \/ DsTestRaise
    \/ \E stop_ok \in BOOLEAN, rm_ok \in BOOLEAN : DsStop(stop_ok, rm_ok)

SpecDs == InitDs /\ [][NextDs]_vars

(***************************************************************************)
(* _submit_batch naming two file parts of one original file name           *)
(***************************************************************************)
\* original names: with an extension, without, hidden, with two dots, and
\* one that looks like a numbered name
FileNames ==
    {<<"a", ".", "t">>, <<"a">>, <<".", "e">>, <<"a", ".", "b", ".", "c">>,
     <<"a", "_", "b", "0", "0", "1", "_", "f", "0", "0", "1", ".", "t">>}

\* batch ids and indexes from 1 on, of one to four digits
PartIds == {1, 2, 10, 11, 100, 101, 111, 999, 1000, 1001, 1011}

InitNames ==
    /\ AsyncTesterUnused
    /\ LoadTesterUnused
    /\ PercentileUnused
    /\ CalcUnused
    /\ SweepUnused
    /\ DsUnused
    /\ got = NoCall
    /\ suite = NoSuite
    /\ part_fname \in FileNames
    /\ part_a \in [batch_id : PartIds, idx : PartIds]
    /\ part_b \in [batch_id : PartIds, idx : PartIds]
    /\ sent_names = <<>>

\* the loop body of _submit_batch for the two parts, each in its batch
NameParts ==
    /\ sent_names = <<>>
    /\ sent_names' = <<numbered_name(part_fname, part_a.batch_id, part_a.idx),
                       numbered_name(part_fname, part_b.batch_id, part_b.idx)>>
    /\ UNCHANGED <<part_fname, part_a, part_b>>
    /\ UNCHANGED <<samples_path, atvars, ltvars, pctvars, calcvars, sweepvars, dsvars, got, suite>>

NextNames == NameParts

SpecNames == InitNames /\ [][NextNames]_vars

(***************************************************************************)
(* Properties                                                              *)
(***************************************************************************)
Units == 1..NumBatches

\* units between the start of their submission and the return of their outcome
InFlight == {i \in Units : unit[i].pc \in {"submitting", "polling", "sleeping"}}

\* C1: with concurrency K >= 2, at most K units are in flight in every
\* reachable state; every other unit waits on the semaphore or has finished,
\* and the semaphore, which exists once the samples are loaded, counts the
\* free slots.
C1_BoundedParallel ==
    (/\ config.concurrency >= 2
     /\ runpc \notin {"created", "interrupted"}
     /\ load(samples_path, config.nsamples) = None) =>
        /\ Cardinality(InFlight) <= config.concurrency
        /\ semaphore = config.concurrency - Cardinality(InFlight)
        /\ \A i \in Units \ InFlight : unit[i].pc \in {"waiting", "returned", "raised"}

C1_Witness ==
    /\ config.concurrency = 2
    /\ Cardinality(InFlight) = 2
    /\ semaphore = 0
    /\ \E i \in Units : unit[i].pc = "waiting"

\* C2: in sequential mode the submission of batch i+1 never starts before the
\* unit of batch i has returned and its outcome is in job_results; job_results
\* always holds batch ids 1, 2, ... in order, all N of them when run returns.
C2_SequentialOrder ==
    (is_sequential(config) /\ runpc # "created") =>
        /\ \A i \in Units :
              (i > 1 /\ (unit[i].pc # "idle" \/ net.post[i] > 0)) =>
                  (unit[i - 1].pc = "returned" /\ Len(job_results) >= i - 1)
        /\ \A j \in 1..Len(job_results) : job_results[j].batch_id = j
        /\ runpc = "returned" =>
              (Len(job_results) = NumBatches /\ summary.total_jobs = NumBatches)

C2_Witness ==
    /\ is_sequential(config)
    /\ runpc = "returned"
    /\ NumBatches = 3
    /\ Len(job_results) = 3
    /\ job_results[3].batch_id = 3

\* C4: an exception raised while building or sending a submission never
\* escapes its unit (it becomes an outcome), so no unit ends by raising.
C4_ExceptionContained ==
    \A i \in Units : unit[i].pc # "raised"

\* C5: run never raises to its caller once it has dispatched a batch.
C5_RunNeverRaises ==
    runpc = "raised" => \A i \in Units : unit[i].pc \in {"idle", "waiting"}

TerminalClassification(r) ==
    \/ r.final_state \in {"SUBMIT_FAILED", "PARSE_ERROR", "TIMEOUT"}
    \/ Lower(r.final_state) \in FINISHED_STATES \cup FAILED_STATES

\* C6: every outcome in job_results carries a terminal classification; none
\* is left in the state SUBMITTED.
C6_OutcomesTerminal ==
    \A j \in 1..Len(job_results) : TerminalClassification(job_results[j])

\* C7: a submission answered with a status other than 202 yields a returned
\* outcome SUBMIT_FAILED with no job id, success false, poll_count 0, and no
\* status request is issued for that batch.
C7_RejectedSubmission ==
    \A i \in Units :
        unit[i].response.status \notin {0, 202} =>
            /\ unit[i].pc = "returned"
            /\ unit[i].job.final_state = "SUBMIT_FAILED"
            /\ unit[i].job.job_id = None
            /\ ~unit[i].job.success
            /\ unit[i].job.poll_count = 0
            /\ unit[i].job.batch_id = i
            /\ net.get[i] = 0
            /\ (runpc = "returned" => job_results[i] = unit[i].job)

C7_Witness ==
    /\ runpc = "returned"
    /\ \E i \in Units :
          /\ unit[i].response = SubmitResponse(FALSE, 200, "object", "job")
          /\ job_results[i].final_state = "SUBMIT_FAILED"

\* C8: a submission answered 202 with a body that is not a JSON object yields
\* a returned outcome PARSE_ERROR with no job id and poll_count 0, and no
\* status request is issued for that batch.
C8_UnparseableBody ==
    \A i \in Units :
        (unit[i].response.status = 202 /\ unit[i].response.json # "object") =>
            /\ unit[i].pc = "returned"
            /\ unit[i].job.final_state = "PARSE_ERROR"
            /\ unit[i].job.job_id = None
            /\ ~unit[i].job.success
            /\ unit[i].job.poll_count = 0
            /\ net.get[i] = 0
            /\ (runpc = "returned" => job_results[i] = unit[i].job)

C8_Witness ==
    /\ runpc = "returned"
    /\ \E i \in Units :
          /\ unit[i].response = SubmitResponse(FALSE, 202, "nonobject", None)
          /\ job_results[i].final_state = "PARSE_ERROR"

\* floor(job_timeout_seconds / poll_interval_seconds), by its definition
FloorBudget ==
    CHOOSE m \in 0..config.job_timeout_seconds :
        /\ m * config.poll_interval_seconds <= config.job_timeout_seconds
        /\ (m + 1) * config.poll_interval_seconds > config.job_timeout_seconds

\* C9: with M = floor(timeout / interval), poll_count and the number of status
\* requests never exceed M; a polled job that returns without a success or
\* failure label has made exactly M attempts and is TIMEOUT with success false.
C9_AttemptBudget ==
    \A i \in Units :
        /\ unit[i].poll_count <= FloorBudget
        /\ unit[i].job.poll_count <= FloorBudget
        /\ net.get[i] <= FloorBudget
        /\ (/\ unit[i].pc = "returned"
            /\ Truthy(unit[i].job.job_id)
            /\ Lower(unit[i].job.final_state) \notin FINISHED_STATES \cup FAILED_STATES) =>
                /\ unit[i].job.final_state = "TIMEOUT"
                /\ ~unit[i].job.success
                /\ unit[i].job.poll_count = FloorBudget
                /\ net.get[i] = FloorBudget

C9_Witness ==
    /\ config.job_timeout_seconds = 3
    /\ config.poll_interval_seconds = 2
    /\ runpc = "returned"
    /\ job_results[1].final_state = "TIMEOUT"
    /\ job_results[1].poll_count = 1
    /\ unit[1].last_state = "running"

\* C10: the time between the start of the poll loop and the return of the
\* outcome never exceeds job_timeout_seconds.
C10_HardTimeout ==
    \A i \in Units :
        (unit[i].pc = "returned" /\ Truthy(unit[i].job.job_id)) =>
            unit[i].job.job_duration_seconds <= config.job_timeout_seconds


\* the run is in fixed-rate mode with r files per second for d seconds
RateLimitedRun ==
    /\ lt_pc \notin {"unused", "created", "raised", "interrupted"}
    /\ ~TestConfig_is_sequential(lt_config)

\* C3: a fixed-rate run with r files per second for d seconds launches exactly
\* r*d units; while the dispatch loop sleeps the next launch depends on the
\* timer only; the summary is computed only when all r*d units have stored
\* their result.
C3_FixedRate ==
    RateLimitedRun =>
        LET rd == Value(lt_config.files_per_second) * Value(lt_config.duration)
        IN  /\ Len(tasks) <= rd
            /\ Len(tasks) = lt_i + 1
            /\ lt_pc = "sleeping" => (Len(tasks) < rd /\ ENABLED LtTimer)
            /\ lt_pc \in {"gathering", "returned"} => Len(tasks) = rd
            /\ test_result.made = (lt_pc = "returned")
            /\ lt_pc = "returned" =>
                  /\ Len(results) = rd
                  /\ \A t \in 1..rd : tasks[t].pc = "done"
                  /\ test_result.total_requests = rd

\* 2 files per second for 3 seconds: the run has ended with 6 results, stored
\* in another order than the launches
C3_Witness ==
    /\ RateLimitedRun
    /\ lt_config.files_per_second = Some(2)
    /\ lt_config.duration = Some(3)
    /\ lt_pc = "returned"
    /\ Len(results) = 6
    /\ test_result.failed_requests = 2
    /\ results[1].file_name = 2

\* the answers of the status endpoint that are no 200 with a JSON object
TransientFaults ==
    {r \in AllPollResponses : r.exc \/ r.status # 200 \/ r.json # "object"}

\* C11: a status request that fails (non-200, invalid JSON, exception) leaves
\* the last observed state and the outcome record as they were, uses up the
\* one attempt it was, and is followed by exactly one sleep of the poll
\* interval before the next attempt or the timeout.
C11_TransientFault ==
    [][\A i \in Units :
          /\ \A resp \in TransientFaults, lat \in Latencies :
                PollDone(i, resp, lat) =>
                    /\ unit'[i].pc = "sleeping"
                    /\ unit'[i].fault
                    /\ unit'[i].last_state = unit[i].last_state
                    /\ unit'[i].last_state_time = unit[i].last_state_time
                    /\ unit'[i].job = unit[i].job
                    /\ unit'[i].poll_count = unit[i].poll_count
                    /\ unit'[i].sleeps = unit[i].sleeps
                    /\ net' = net
                    /\ job_results' = job_results
          /\ (runpc = "dispatch" /\ unit[i].pc = "sleeping" /\ unit'[i] # unit[i]) =>
                /\ unit'[i].clock = unit[i].clock + config.poll_interval_seconds
                /\ unit'[i].sleeps = unit[i].sleeps + 1
                /\ unit'[i].last_state = unit[i].last_state
                /\ \/ /\ unit'[i].pc = "polling"
                      /\ unit'[i].poll_count = unit[i].poll_count + 1
                      /\ net'.get[i] = net.get[i] + 1
                      /\ unit'[i].job = unit[i].job
                   \/ /\ unit'[i].pc = "returned"
                      /\ unit'[i].poll_count = unit[i].poll_count
                      /\ net'.get[i] = net.get[i]
          /\ (runpc = "dispatch" /\ unit[i].pc = "polling") =>
                (unit[i].sleeps = unit[i].poll_count - 1 /\ net.get[i] = unit[i].poll_count)
      ]_vars

\* the second attempt failed after the first one saw the job running
C11_Witness ==
    /\ runpc = "dispatch"
    /\ unit[1].pc = "sleeping"
    /\ unit[1].fault
    /\ unit[1].poll_count = 2
    /\ unit[1].sleeps = 1
    /\ unit[1].last_state = "running"
    /\ unit[1].job.final_state = "SUBMITTED"

\* the outcome was finalized by the poller: a success label, a failure label,
\* or the timeout block
Finalized(r) ==
    \/ r.final_state = "TIMEOUT"
    \/ Lower(r.final_state) \in FINISHED_STATES \cup FAILED_STATES

\* C12: terminal states are sticky: once the outcome of a job carries a
\* success label, a failure label or TIMEOUT, its unit has returned, no
\* further status request is issued for it, and no field of the outcome (in
\* the unit or in job_results) changes in any later step.
C12_TerminalSticky ==
    [][\A i \in Units :
          Finalized(unit[i].job) =>
              /\ unit[i].pc = "returned"
              /\ unit'[i] = unit[i]
              /\ net'.get[i] = net.get[i]
              /\ net'.post[i] = net.post[i]
              /\ \A j \in 1..Len(job_results) : job_results'[j] = job_results[j]
              /\ Len(job_results') >= i => job_results'[i] = unit[i].job
      ]_vars

\* the job failed on the second of four attempts, and the run went on to
\* return with that outcome
C12_Witness ==
    /\ runpc = "returned"
    /\ max_attempts(config) = 4
    /\ unit[1].job.final_state = "FAILED"
    /\ unit[1].job.poll_count = 2
    /\ net.get[1] = 2
    /\ job_results[1] = unit[1].job

\* the spellings whose lower-case form is a success label, and those whose
\* lower-case form is a failure label
SuccessSpellings ==
    {"finished", "Finished", "FINISHED", "completed", "Completed",
     "successful", "SUCCESSFUL", "done", "DONE"}

FailureSpellings == {"failed", "FAILED", "cancelled", "Cancelled"}

\* C13: for every non-empty observed state s (last_state holds the state the
\* latest successful status request showed): when lower-case(s) is a success
\* label the job has ended successful with final state s; when it is a failure
\* label the job has ended as a server failure with an error message; in
\* every other case the state is non-terminal: the outcome stays SUBMITTED
\* while polling goes on, and only the attempt budget ends it, as TIMEOUT.
\* Upper and mixed case count for both sets.
C13_Labels ==
    \A i \in Units :
        Truthy(unit[i].last_state) =>
            LET s == unit[i].last_state
                job == unit[i].job
            IN  IF s \in SuccessSpellings
                THEN /\ unit[i].pc = "returned"
                     /\ job.success
                     /\ job.final_state = s
                     /\ job.error_message = None
                ELSE IF s \in FailureSpellings
                THEN /\ unit[i].pc = "returned"
                     /\ ~job.success
                     /\ job.final_state = s
                     /\ job.error_message = "Job ended with state"
                ELSE /\ ~job.success
                     /\ IF unit[i].pc \in {"polling", "sleeping"}
                        THEN job.final_state = "SUBMITTED"
                        ELSE /\ unit[i].pc = "returned"
                             /\ job.final_state = "TIMEOUT"
                             /\ job.poll_count = max_attempts(config)

\* the second status request showed "Cancelled", which ended the job as a
\* failure
C13_Witness ==
    /\ runpc = "dispatch"
    /\ unit[1].pc = "returned"
    /\ unit[1].job.final_state = "Cancelled"
    /\ ~unit[1].job.success
    /\ unit[1].job.poll_count = 2
    /\ unit[1].last_state_time > unit[1].job_start + config.poll_interval_seconds

\* the four places of the state in a status body, in the order they are read
Paths(data) ==
    <<data.state, IF data.job.present THEN data.job.state ELSE None,
      data.status, data.jobState>>

\* the first of the four that is not null (None when all are)
FirstNonNull(data) ==
    LET idx == {k \in 1..4 : Paths(data)[k] # None}
    IN  IF idx = {} THEN None
        ELSE Paths(data)[CHOOSE k \in idx : \A m \in idx : k <= m]

\* the first of the four that is neither null nor empty (None when none is)
FirstTruthy(data) ==
    LET idx == {k \in 1..4 : Truthy(Paths(data)[k])}
    IN  IF idx = {} THEN None
        ELSE Paths(data)[CHOOSE k \in idx : \A m \in idx : k <= m]

\* this step is the end of an attempt of unit i whose answer was 200 with a
\* JSON object
Answered(i) ==
    /\ runpc = "dispatch"
    /\ unit[i].pc = "polling"
    /\ unit'[i].pc # "polling"
    /\ ~unit'[i].fault

\* this step treats the attempt of unit i as unknown: it sleeps before the
\* next attempt and leaves the last observed state and the outcome alone
Unknown(i) ==
    /\ unit'[i].pc = "sleeping"
    /\ unit'[i].last_state = unit[i].last_state
    /\ unit'[i].last_state_time = unit[i].last_state_time
    /\ unit'[i].job = unit[i].job

\* C14 as stated: for every 200 answer with a JSON object, the state used is
\* the first non-null value among state, job.state, status, jobState; when all
\* four are absent or null the attempt is unknown.
C14_FirstNonNull ==
    [][\A i \in Units :
          Answered(i) =>
              LET s == FirstNonNull(unit'[i].data)
              IN  IF s = None THEN Unknown(i) ELSE unit'[i].state = s
      ]_vars

\* C14, amended: for every 200 answer with a JSON object whose state members
\* are strings or null, the state used is the first value among state,
\* job.state, status, jobState that is neither null nor empty; when none of
\* the four is, the attempt is unknown: the poller sleeps and retries without
\* changing the last observed state or the outcome.
C14_FirstTruthy ==
    [][\A i \in Units :
          Answered(i) =>
              LET s == FirstTruthy(unit'[i].data)
              IN  IF s = None
                  THEN Unknown(i) /\ ~Truthy(unit'[i].state)
                  ELSE unit'[i].state = s /\ unit'[i].last_state = s
      ]_vars

\* "state" is empty, "job" has no state: the state used is the one of "status"
C14_Witness ==
    /\ unit # <<>>
    /\ unit[1].pc = "sleeping"
    /\ unit[1].data = StatusBody("", TRUE, None, "running", "Finished")
    /\ unit[1].state = "running"
    /\ unit[1].last_state = "running"

\* C15: poll_count equals the number of status requests attempted: the
\* counter of a unit equals the requests it has issued, and an outcome whose
\* terminal state was observed on the n-th request has poll_count n; with one
\* sample, batch size 1 and concurrency 1, a job that ended successful gives a
\* summary with successful_jobs 1 and error rate 0.
C15_PollCount ==
    \A i \in Units :
        /\ unit[i].poll_count = net.get[i]
        /\ (unit[i].pc = "returned" /\ Truthy(unit[i].job.job_id)) =>
              unit[i].job.poll_count = net.get[i]
        /\ (/\ runpc = "returned"
            /\ config.nsamples = 1
            /\ config.files_per_request = 1
            /\ config.concurrency = 1
            /\ job_results[1].success) =>
                /\ summary.total_jobs = 1
                /\ summary.successful_jobs = 1
                /\ summary.error_rate.num = 0
                /\ summary.total_polls = net.get[1]

\* the job was seen finished on the third status request
C15_Witness ==
    /\ runpc = "returned"
    /\ job_results[1].success
    /\ job_results[1].final_state = "finished"
    /\ job_results[1].poll_count = 3
    /\ net.get[1] = 3
    /\ summary.successful_jobs = 1
    /\ summary.error_rate = Ratio(0, 1)

\* the outcomes of res that are no success
Unsuccessful(res) == {j \in 1..Len(res) : ~res[j].success}

\* C16: in sequential mode an HTTP error status on the submission of batch i
\* makes outcome i SUBMIT_FAILED and nothing else: the step that records it
\* touches no other unit and no other outcome, the loop goes on to batch
\* i + 1, and a run that returns has submitted all N batches, has outcome j
\* SUBMIT_FAILED exactly for the batches j answered with an error status, and
\* reports the error rate 100 * (outcomes that are no success) / N.
C16_RejectionIsolated ==
    [][is_sequential(config) =>
          /\ \A i \in Units :
                (unit[i].pc = "submitting" /\ unit'[i].job.final_state = "SUBMIT_FAILED") =>
                    /\ unit'[i].response.status \notin {0, 202}
                    /\ unit'[i].pc = "returned"
                    /\ runpc' = "dispatch"
                    /\ seq_i' = i + 1
                    /\ job_results' = Append(job_results, unit'[i].job)
                    /\ \A j \in Units \ {i} :
                          unit'[j] = unit[j] /\ net'.post[j] = net.post[j]
          /\ runpc' = "returned" =>
                /\ Len(job_results') = Len(unit')
                /\ \A j \in 1..Len(unit') :
                      /\ net'.post[j] = 1
                      /\ job_results'[j] = unit'[j].job
                      /\ job_results'[j].final_state = "SUBMIT_FAILED"
                            <=> unit'[j].response.status \notin {0, 202}
                /\ summary'.failed_jobs + summary'.timed_out_jobs
                      = Cardinality(Unsuccessful(job_results'))
                /\ summary'.error_rate.num * Len(unit')
                      = 100 * Cardinality(Unsuccessful(job_results')) * summary'.error_rate.den
      ]_vars

\* three batches, the second one rejected, the other two successful: the
\* error rate is 100/3
C16_Witness ==
    /\ is_sequential(config)
    /\ runpc = "returned"
    /\ Len(job_results) = 3
    /\ job_results[1].success
    /\ job_results[2].final_state = "SUBMIT_FAILED"
    /\ job_results[3].success
    /\ summary.failed_jobs = 1
    /\ summary.error_rate = Ratio(100, 3)

\* C17: when a run is interrupted after some units have returned their
\* outcome, exactly those outcomes are retained in job_results and a partial
\* summary is made from them, in sequential and in bounded-parallel mode; a
\* unit that had not finished has no outcome.
C17_PartialSummary ==
    LET done == {i \in Units : unit[i].pc = "returned"}
    IN  (runpc = "interrupted" /\ done # {}) =>
            /\ Len(job_results) = Cardinality(done)
            /\ \A i \in done :
                  \E j \in 1..Len(job_results) : job_results[j] = unit[i].job
            /\ summary.made
            /\ summary.total_jobs = Cardinality(done)

\* the exit status st is the one promised for a run that ended as how
\* ("returned", "raised" or "interrupted"), with or without errors counted
PromisedExit(st, how, errors) ==
    /\ st = Some(0) <=> (how = "returned" /\ ~errors)
    /\ st = Some(1) <=> (how = "raised" \/ (how = "returned" /\ errors))
    /\ st = Some(130) <=> how = "interrupted"

\* C18: a command-line entry point that runs a test ends with exit status 0
\* exactly when the run returned with error rate zero, 1 when it returned with
\* a nonzero error rate or ended by a fatal error, 130 when the user
\* interrupted it (cli/single.py and cli/load_test.py).
C18_ExitCodes ==
    /\ runpc \in {"returned", "raised", "interrupted"} =>
          PromisedExit(exit_code, runpc, summary.error_rate.num > 0)
    /\ lt_pc \in {"returned", "raised", "interrupted"} =>
          PromisedExit(lt_exit_code, lt_pc, test_result.failed_requests > 0)

\* the configuration names a sequential count, a rate/duration pair
HasSequential(cfg) == ~IsNone(cfg.sequential_count)
HasRatePair(cfg) == ~IsNone(cfg.files_per_second) /\ ~IsNone(cfg.duration)

\* C19: a LoadTester run follows exactly one scheduling policy: when the
\* configuration names neither a sequential count nor a rate/duration pair,
\* or names both, run ends with a configuration error before any request is
\* sent; it never picks one of the two silently.
C19_OnePolicy ==
    (lt_pc \notin {"unused", "created"}
        /\ HasSequential(lt_config) = HasRatePair(lt_config)) =>
            /\ lt_pc = "raised"
            /\ results = <<>>
            /\ tasks = <<>>

\* C20: an AsyncTester run whose concurrency is 0 or negative is rejected
\* before any batch is dispatched: it ends by an error with every unit
\* unstarted, and never enters a dispatch that cannot make progress.
C20_ConcurrencyPositive ==
    config.concurrency <= 0 =>
        /\ runpc \in {"created", "raised"}
        /\ \A i \in Units : unit[i].pc = "idle" /\ net.post[i] = 0

(***************************************************************************)
(* C21: _calculate_percentile(values, p) is the nearest-rank statistic: 0  *)
(* for an empty list, else the element of rank min(floor(n * p / 100),     *)
(* n - 1), counted from 0, of the values in ascending order.  So the       *)
(* result is always one of the values, and for p = 100 it is the largest.  *)
(* The rank is stated by counting, without sorting: at most k values lie   *)
(* below the result and more than k do not lie above it.                   *)
(***************************************************************************)
C21_NearestRank ==
    pvalue # {} =>
        LET n == Len(values)
            r == Value(pvalue)
            k == Min((n * percentile) \div 100, n - 1)
        IN  IF n = 0 THEN r = 0
            ELSE /\ \E j \in 1..n : values[j] = r
                 /\ Cardinality({j \in 1..n : values[j] < r}) <= k
                 /\ k < Cardinality({j \in 1..n : values[j] <= r})
                 /\ percentile = 100 => \A j \in 1..n : values[j] <= r

\* an unsorted list whose 100th percentile is its largest value, the index
\* n clamped to n - 1
C21_Witness ==
    /\ values = <<2, 0, 1>>
    /\ percentile = 100
    /\ pvalue = Some(2)

\* a float rounded to p significant bits
RoundTo(x, p) == IF x.zero THEN x ELSE RoundBits(x.m, x.e, FALSE, p)

(***************************************************************************)
(* C22, as stated: in the summary of every list of outcomes,               *)
(* error_rate * total_jobs == 100 * (failed_jobs + timed_out_jobs) when    *)
(* total_jobs > 0, and error_rate == 0 when total_jobs == 0.  The product  *)
(* and the comparison are those of Python: a float times an int, compared  *)
(* with an int.                                                            *)
(***************************************************************************)
C22_ErrorRateExact ==
    calls > 0 =>
        IF summary.total_jobs > 0
        THEN FloatMul(rate, summary.total_jobs)
                = FloatOfInt(100 * (summary.failed_jobs + summary.timed_out_jobs))
        ELSE rate = FloatZero

(***************************************************************************)
(* C22, amended: the equality holds up to the rounding of the two float    *)
(* operations: error_rate * total_jobs and                                 *)
(* 100 * (failed_jobs + timed_out_jobs) agree once rounded to 40           *)
(* significant bits; error_rate is 0.0 exactly when total_jobs == 0 or no  *)
(* job failed or timed out.                                                *)
(***************************************************************************)
C22_ErrorRateRounded ==
    calls > 0 =>
        LET bad == summary.failed_jobs + summary.timed_out_jobs
        IN  IF summary.total_jobs > 0
            THEN /\ RoundTo(FloatMul(rate, summary.total_jobs), 40)
                        = RoundTo(FloatOfInt(100 * bad), 40)
                 /\ rate = FloatZero <=> bad = 0
            ELSE rate = FloatZero

\* one failed and one timed-out job of three: 2 / 3 * 100 * 3 is not 200.0
C22_Witness ==
    /\ calls > 0
    /\ summary.total_jobs = 3
    /\ summary.failed_jobs = 1
    /\ summary.timed_out_jobs = 1
    /\ FloatMul(rate, 3) # FloatOfInt(200)

RECURSIVE FilesOf(_, _)
\* the files of the outcomes of res whose place is in S
FilesOf(res, S) ==
    IF S = {} THEN 0
    ELSE LET j == CHOOSE x \in S : TRUE
         IN  res[j].file_count + FilesOf(res, S \ {j})

RECURSIVE DurationsOf(_, _)
\* the sum of job_duration_seconds over the outcomes whose place is in S
DurationsOf(res, S) ==
    IF S = {} THEN 0
    ELSE LET j == CHOOSE x \in S : TRUE
         IN  res[j].job_duration_seconds + DurationsOf(res, S \ {j})

(***************************************************************************)
(* C24: in the summary, the throughput is the number of files of the       *)
(* successful jobs divided by the wall-clock duration of the run           *)
(* (end_time - start_time), and 0 when that duration is 0.                 *)
(***************************************************************************)
C24_Throughput ==
    calls > 0 =>
        IF total_duration = 0 THEN throughput.num = 0
        ELSE /\ throughput.num
                  = FilesOf(job_results, {j \in 1..Len(job_results) : job_results[j].success})
             /\ throughput.den = total_duration

\* two successful jobs and a failed one, of one file and one second each,
\* in a run of one second: 2 files per second, neither 3 / 1 nor 2 / 3
C24_Witness ==
    /\ calls > 0
    /\ Len(job_results) = 3
    /\ summary.successful_jobs = 2
    /\ summary.failed_jobs = 1
    /\ FilesOf(job_results, 1..3) = 3
    /\ DurationsOf(job_results, 1..3) = 3
    /\ total_duration = 1
    /\ throughput = Ratio(2, 1)

SweepJobs == SumField(stage_results, "total_jobs")
SweepBadJobs ==
    SumField(stage_results, "failed_jobs") + SumField(stage_results, "timed_out_jobs")

(***************************************************************************)
(* C23, as stated: overall_error_rate * (sum of total_jobs over the        *)
(* stages) == 100 * (sum of failed_jobs + timed_out_jobs over the stages), *)
(* and overall_error_rate is 0 when no job was issued.  The product and    *)
(* the comparison are those of Python.                                     *)
(***************************************************************************)
C23_OverallExact ==
    sweep_pc = "returned" =>
        IF SweepJobs > 0
        THEN FloatMul(sweep_result.overall_error_rate, SweepJobs)
                = FloatOfInt(100 * SweepBadJobs)
        ELSE sweep_result.overall_error_rate = FloatZero

(***************************************************************************)
(* C23, amended: overall_error_rate is the float quotient of the summed    *)
(* counts times 100, so overall_error_rate * (sum of total_jobs) and       *)
(* 100 * (sum of failed_jobs + timed_out_jobs) agree once rounded to 40    *)
(* significant bits; it is 0.0 exactly when no job of a returned stage     *)
(* failed or timed out, in particular when no job was issued.  The sums    *)
(* run over the stages whose run returned.                                 *)
(***************************************************************************)
C23_OverallRounded ==
    sweep_pc = "returned" =>
        IF SweepJobs > 0
        THEN /\ RoundTo(FloatMul(sweep_result.overall_error_rate, SweepJobs), 40)
                    = RoundTo(FloatOfInt(100 * SweepBadJobs), 40)
             /\ sweep_result.overall_error_rate = FloatZero <=> SweepBadJobs = 0
        ELSE sweep_result.overall_error_rate = FloatZero

\* a stage of one job without failure and a stage of two failed jobs: the
\* overall rate is 2 / 3 * 100, which is neither the average 50.0 of the
\* stage rates nor a float whose product with 3 is 200.0
C23_Witness ==
    /\ sweep_pc = "returned"
    /\ Len(stage_results) = 2
    /\ stage_results[1].total_jobs = 1
    /\ stage_results[1].failed_jobs + stage_results[1].timed_out_jobs = 0
    /\ stage_results[2].total_jobs = 2
    /\ stage_results[2].failed_jobs + stage_results[2].timed_out_jobs = 2
    /\ sweep_result.overall_error_rate = FloatMul(FloatDiv(2, 3), 100)
    /\ sweep_result.overall_error_rate # FloatOfInt(50)
    /\ FloatMul(sweep_result.overall_error_rate, 3) # FloatOfInt(200)

\* a JobResult that is still SUBMITTED carries no result of the polling
Blank(r) ==
    r.final_state = "SUBMITTED" =>
        /\ r.job_duration_seconds = 0
        /\ r.poll_count = 0
        /\ r.job_end = 0
        /\ ~r.success

AllBlank ==
    /\ \A i \in 1..Len(unit) : Blank(unit[i].job)
    /\ \A j \in 1..Len(job_results) : Blank(job_results[j])

(***************************************************************************)
(* C26: while the outcome of a job is still SUBMITTED its                  *)
(* job_duration_seconds, poll_count and job_end are 0 and success is       *)
(* false, in the unit that owns it and in job_results; and the only step   *)
(* that writes to a SUBMITTED outcome is the one step of its own poller    *)
(* (the answer of a GET, or the end of the last sleep) that makes it       *)
(* terminal and returns it, all fields written in that step.  (The task    *)
(* of a cancelled unit is dropped with its outcome.)                       *)
(***************************************************************************)
C26_WrittenOnce ==
    [][/\ AllBlank
       /\ AllBlank'
       /\ \A i \in 1..Len(unit) :
            (/\ i <= Len(unit')
             /\ unit[i].job.final_state = "SUBMITTED"
             /\ unit'[i].pc # "cancelled"
             /\ unit'[i].job # unit[i].job)
            => /\ unit[i].pc \in {"polling", "sleeping"}
               /\ unit'[i].pc = "returned"
               /\ unit'[i].job.final_state # "SUBMITTED"
               /\ unit'[i].job.job_end = unit'[i].clock
               /\ unit'[i].job.job_duration_seconds = unit'[i].clock - unit[i].job_start
               /\ unit'[i].job.poll_count = unit[i].poll_count
               /\ \A j \in 1..Len(unit) : j # i => unit'[j].job = unit[j].job]_vars

\* a job still SUBMITTED after two answered polls and some seconds
C26_Witness ==
    \E i \in 1..Len(unit) :
        /\ unit[i].pc = "sleeping"
        /\ unit[i].job.final_state = "SUBMITTED"
        /\ unit[i].poll_count = 2
        /\ unit[i].clock > unit[i].job_start
        /\ unit[i].job.poll_count = 0
        /\ unit[i].job.job_duration_seconds = 0

\* stage k is over: the loop has passed it, or the sweep ended in it
StageOver(k) ==
    \/ k < ds_i
    \/ k = ds_i /\ ds_pc \in {"returned", "raised"}

\* what holds of the stages in every state
Lifecycle ==
    \A k \in 1..ds_counts :
        /\ ds_log[k].requests > 0 => ds_log[k].started /\ ds_log[k].waited
        /\ ds_log[k].stop_calls <= 1
        /\ ds_log[k].stop_calls = 1 =>
              ds_log[k].test \in {"returned", "raised"} \/ ~ds_log[k].started
        /\ StageOver(k) => ds_log[k].stop_calls = 1
        /\ \A j \in 1..ds_counts :
              k < j /\ ds_log[j].started =>
                  ds_log[k].started /\ ds_log[k].stop_calls = 1 /\ ds_log[k].removed
        /\ docker.state = "running" /\ docker.stage # k /\ ds_log[k].started =>
              ds_log[k].removed

(***************************************************************************)
(* C27: in each stage of a DatasourceSweep no request is sent before       *)
(* start() has returned, its startup wait included, and the request goes   *)
(* to the container of that stage; stop() is called exactly once per       *)
(* stage, after the test of the stage has returned or raised (or start     *)
(* has failed) and before the container of the next stage is started; a    *)
(* container is started only when the containers of all earlier stages     *)
(* are stopped and removed, so no two of them ever run at the same time.   *)
(***************************************************************************)
C27_ContainerLifecycle ==
    [][/\ Lifecycle
       /\ Lifecycle'
       /\ ds_log'[ds_i].requests # ds_log[ds_i].requests =>
             /\ ds_log[ds_i].waited
             /\ docker = [state |-> "running", stage |-> ds_i]
       /\ ds_log'[ds_i].stop_calls # ds_log[ds_i].stop_calls =>
             /\ ds_log[ds_i].stop_calls = 0
             /\ ds_log[ds_i].test \in {"returned", "raised"} \/ ~ds_log[ds_i].started
             /\ ds_log[ds_i].test # "none" => ds_log[ds_i].waited
       /\ ds_log'[ds_i].started # ds_log[ds_i].started =>
             /\ docker = NoContainer
             /\ \A k \in 1..(ds_i - 1) : ds_log[k].stop_calls = 1]_vars

\* the second stage sends a request to its own container, the container of
\* the first stage having been stopped and removed once its test returned
C27_Witness ==
    /\ ds_counts = 2
    /\ ds_i = 2
    /\ ds_pc = "testing"
    /\ ds_log[2].requests = 1
    /\ docker = [state |-> "running", stage |-> 2]
    /\ ds_log[1].test = "returned"
    /\ ds_log[1].stop_calls = 1
    /\ ds_log[1].removed

(***************************************************************************)
(* C28: when the samples directory is missing, is not a directory or holds *)
(* no file, SampleLoader.load raises, and run, which loads first, raises   *)
(* with it: no batch is cut, no unit is created, no request is sent and    *)
(* there is neither an outcome nor a summary.                              *)
(***************************************************************************)
C28_LoadFailsFast ==
    (samples_path # "directory" \/ config.nsamples = 0) =>
        /\ runpc \in {"created", "raised"}
        /\ batches = <<>>
        /\ unit = <<>>
        /\ net.post = <<>>
        /\ job_results = <<>>
        /\ ~summary.made

\* a run on a directory without a file has raised
C28_Witness ==
    /\ samples_path = "directory"
    /\ config.nsamples = 0
    /\ runpc = "raised"
    /\ net.post = <<>>

(***************************************************************************)
(* C29: two file parts of the same original name whose (batch id, index)   *)
(* pairs differ are sent under different names.                            *)
(***************************************************************************)
C29_NamesDistinct ==
    (sent_names # <<>> /\ part_a # part_b) => sent_names[1] # sent_names[2]

\* part 11 of batch 1 and part 1 of batch 11 of the sample "a.t":
\* "a_b001_f011.t" and "a_b011_f001.t"
C29_Witness ==
    /\ part_a = [batch_id |-> 1, idx |-> 11]
    /\ part_b = [batch_id |-> 11, idx |-> 1]
    /\ sent_names = << <<"a", "_", "b", "0", "0", "1", "_", "f", "0", "1", "1", ".", "t">>,
                       <<"a", "_", "b", "0", "1", "1", "_", "f", "0", "0", "1", ".", "t">> >>

(***************************************************************************)
(* C30: get_file(i) on a loaded set of n samples returns sample i mod n    *)
(* and leaves the set as it is, so the k-th request of a sequential run    *)
(* and the k-th task of a rate-limited run carry sample k mod n (k from    *)
(* 0); on an unloaded set get_file raises and returns no sample.           *)
(***************************************************************************)
\* sample i (from 0) of the directory is the file i + 1
SampleOf(k, n) == (k % n) + 1

RequestsCycle ==
    LET n == Len(sample_files)
    IN  /\ TestConfig_is_sequential(lt_config) =>
            \A k \in 1..Len(results) : results[k].file_name = SampleOf(k - 1, n)
        /\ \A t \in 1..Len(tasks) : tasks[t].file_name = SampleOf(t - 1, n)

C30_CyclicAccess ==
    [][/\ RequestsCycle'
       /\ got' # got =>
            /\ sample_files' = sample_files
            /\ IF sample_files = <<>>
               THEN Value(got').outcome.raised = "RuntimeError"
               ELSE /\ Value(got').outcome.raised = None
                    /\ Value(got').outcome.file =
                            SampleOf(Value(got').index, Len(sample_files))]_vars

\* a rate-limited run over two samples sent its third request with the first
\* sample again, and get_file(3) then returned the second sample
C30_Witness ==
    /\ lt_pc = "returned"
    /\ Len(sample_files) = 2
    /\ Len(tasks) >= 3
    /\ tasks[3].file_name = 1
    /\ got = Some([index |-> 3, outcome |-> [raised |-> None, file |-> 2]])

\* the results of the stages whose tester.run() returned, in directory order
StageReturned(r) == ~r.raised
CompletedStages ==
    LET done == SelectSeq(stage_runs, StageReturned)
    IN  [j \in 1..Len(done) |-> done[j].result]

(***************************************************************************)
(* C31: in FileSizeSweep.run a stage whose test raises is skipped: while   *)
(* the stages run and after them, stage_results and the aggregator hold    *)
(* exactly the summaries of the stages that completed, each under its own  *)
(* directory and in directory order; when run returns every directory has  *)
(* been run and the totals are those of the completed stages.              *)
(***************************************************************************)
C31_RaisedStageSkipped ==
    /\ sweep_pc \in {"stages", "returned"} =>
        /\ stage_results = CompletedStages
        /\ aggregator = stage_results
        /\ Len(stage_runs) = sweep_i - 1
        /\ \A j \in 1..Len(stage_results) :
              /\ stage_results[j].samples_dir \in 1..Len(stage_runs)
              /\ stage_runs[stage_results[j].samples_dir] =
                    [raised |-> FALSE, result |-> stage_results[j]]
              /\ \A h \in 1..(j - 1) :
                    stage_results[h].samples_dir < stage_results[j].samples_dir
    /\ sweep_pc = "returned" =>
        /\ Len(stage_runs) = directories
        /\ sweep_result.total_files_processed = SumField(CompletedStages, "total_files")
        /\ sweep_result.overall_error_rate = overall_error_rate(CompletedStages)

\* the first of two stages raised; the second stage ran and its summary is
\* the only result
C31_Witness ==
    /\ sweep_pc = "returned"
    /\ directories = 2
    /\ stage_runs[1].raised
    /\ ~stage_runs[2].raised
    /\ Len(aggregator) = 1
    /\ aggregator[1].samples_dir = 2
    /\ stage_results = <<stage_runs[2].result>>
    /\ sweep_result.total_files_processed = stage_results[1].total_files
    /\ stage_results[1].total_files > 0

\* the state an attempt observes: none when the answer is no 200 with a JSON
\* object
Observed(resp) ==
    IF resp.exc \/ resp.status # 200 \/ resp.json # "object"
    THEN None
    ELSE ExtractState(resp.data)

(***************************************************************************)
(* C32: an attempt of the poller writes a stage-complete record exactly    *)
(* when the state it observes is non-null, differs from the last observed  *)
(* state, and a previous state exists; an attempt that observes the same   *)
(* state again, or none, leaves last_state and last_state_time unchanged.  *)
(***************************************************************************)
C32_RecordOnChange ==
    [][\A i \in Units : \A resp \in StageAnswers, lat \in Latencies :
          PollDone(i, resp, lat) =>
              LET changed == Truthy(Observed(resp)) /\ Observed(resp) # unit[i].last_state
              IN  /\ PollLog(unit[i], resp, lat) # {}
                        <=> (changed /\ Truthy(unit[i].last_state))
                  /\ ~changed =>
                        /\ unit'[i].last_state = unit[i].last_state
                        /\ unit'[i].last_state_time = unit[i].last_state_time
      ]_vars

(***************************************************************************)
(* C33: in bounded-parallel mode the outcome of every unit carries the     *)
(* batch id of the batch the unit was created for, whenever the units      *)
(* complete, and when run returns job_results holds one outcome per batch, *)
(* in batch order: the outcome at position i (from 1) has batch id i.      *)
(***************************************************************************)
C33_BatchOrder ==
    ~is_sequential(config) =>
        /\ \A i \in Units : unit[i].job # NoResult => unit[i].job.batch_id = i
        /\ runpc = "returned" =>
              /\ Len(job_results) = NumBatches
              /\ \A i \in 1..NumBatches :
                    job_results[i].batch_id = i /\ job_results[i] = unit[i].job

\* two units in flight together; the job of the second batch finished before
\* the job of the first timed out
C33_Witness ==
    /\ runpc = "returned"
    /\ config.concurrency = 2
    /\ NumBatches = 2
    /\ job_results[1].batch_id = 1
    /\ job_results[2].batch_id = 2
    /\ job_results[1].final_state = "TIMEOUT"
    /\ job_results[2].success
    /\ job_results[2].job_end < job_results[1].job_end

\* the positions of job_results in each of the three outcome classes, as the
\* claim tells them apart
SuccessClass == {i \in 1..Len(job_results) : job_results[i].success}
TimeoutClass == {i \in 1..Len(job_results) : job_results[i].final_state = "TIMEOUT"}
FailureClass == (1..Len(job_results)) \ (SuccessClass \cup TimeoutClass)

(***************************************************************************)
(* C34: in every summary the three outcome classes partition the jobs:     *)
(* no outcome is both successful and timed out, successful_jobs,           *)
(* failed_jobs and timed_out_jobs count the jobs of their class, and their *)
(* sum is total_jobs, which is len(job_results).                           *)
(***************************************************************************)
C34_Partition ==
    summary.made =>
        /\ SuccessClass \cap TimeoutClass = {}
        /\ summary.successful_jobs = Cardinality(SuccessClass)
        /\ summary.failed_jobs = Cardinality(FailureClass)
        /\ summary.timed_out_jobs = Cardinality(TimeoutClass)
        /\ summary.successful_jobs + summary.failed_jobs + summary.timed_out_jobs
              = summary.total_jobs
        /\ summary.total_jobs = Len(job_results)

\* a run of three jobs, one of each class
C34_Witness ==
    /\ runpc = "returned"
    /\ summary.made
    /\ summary.total_jobs = 3
    /\ summary.successful_jobs = 1
    /\ summary.failed_jobs = 1
    /\ summary.timed_out_jobs = 1

(***************************************************************************)
(* C35: for every outcome _run_batch_with_polling returns, success is true *)
(* exactly when the lower-cased final_state is a success label; a success  *)
(* has a job id and poll_count >= 1; an outcome without success that has a *)
(* job id carries a failure label or TIMEOUT, and a non-empty              *)
(* error_message.  A job id is present when the poller takes it for one:   *)
(* it is neither None nor empty.                                           *)
(***************************************************************************)
C35_OutcomeConsistent ==
    \A i \in Units :
        unit[i].pc = "returned" =>
            LET r == unit[i].job
            IN  /\ r.success <=> Lower(r.final_state) \in FINISHED_STATES
                /\ r.success => (Truthy(r.job_id) /\ r.poll_count >= 1)
                /\ (~r.success /\ Truthy(r.job_id)) =>
                      /\ \/ Lower(r.final_state) \in FAILED_STATES
                         \/ r.final_state = "TIMEOUT"
                      /\ Truthy(r.error_message)

\* a job that timed out after two status requests
C35_Witness ==
    /\ unit # <<>>
    /\ unit[1].pc = "returned"
    /\ unit[1].job.job_id = "job"
    /\ ~unit[1].job.success
    /\ unit[1].job.final_state = "TIMEOUT"
    /\ unit[1].job.error_message = "Timed out"
    /\ unit[1].job.poll_count = 2

(***************************************************************************)
(* C36: with concurrency K >= 1, any number of batches, a finite timeout   *)
(* and interval, and every request coming back or raising, run eventually  *)
(* finishes: every unit that waits on the semaphore eventually gets a      *)
(* slot, and no poll loop makes more than max_attempts iterations.         *)
(***************************************************************************)
RunFinished == runpc \in {"returned", "raised"}

WaitsForSlot(i) == i \in Units /\ unit[i].pc = "waiting"

\* run ends, by returning or by raising
RunEventuallyFinishes == <>RunFinished

EveryWaiterAcquires ==
    \A i \in 1..(MaxFairBatches + 1) : [](WaitsForSlot(i) => <>(~WaitsForSlot(i)))

PollLoopsBounded ==
    [](\A i \in Units : unit[i].poll_count <= max_attempts(config))

C36_RunFinishes ==
    /\ RunEventuallyFinishes
    /\ EveryWaiterAcquires
    /\ PollLoopsBounded

(***************************************************************************)
(* C37: with files_per_request k >= 1 and n loaded samples, the batches of *)
(* run, concatenated in batch order, are the sample list: every sample is  *)
(* in exactly one batch, every batch but the last has k files, the last    *)
(* has between 1 and k, and there are ceil(n / k) batches; a run that      *)
(* returns reports total_jobs = ceil(n / k) and total_files = n.           *)
(***************************************************************************)
RECURSIVE Concat(_)
Concat(seqs) == IF seqs = <<>> THEN <<>> ELSE Head(seqs) \o Concat(Tail(seqs))

CeilDiv(n, k) == (n + k - 1) \div k

C37_BatchesPartition ==
    LET n == config.nsamples
        k == config.files_per_request
    IN  (k >= 1 /\ runpc \in {"dispatch", "returned"}) =>
            /\ Concat(batches) = [s \in 1..n |-> s]
            /\ \A s \in 1..n :
                  \E b \in 1..NumBatches :
                      /\ \E j \in 1..Len(batches[b]) : batches[b][j] = s
                      /\ \A c \in (1..NumBatches) \ {b} :
                            \A j \in 1..Len(batches[c]) : batches[c][j] # s
            /\ \A b \in 1..(NumBatches - 1) : Len(batches[b]) = k
            /\ Len(batches[NumBatches]) \in 1..k
            /\ NumBatches = CeilDiv(n, k)
            /\ runpc = "returned" =>
                  (summary.total_jobs = CeilDiv(n, k) /\ summary.total_files = n)

\* three samples sent two per request: batches <<1, 2>> and <<3>>, two jobs
C37_Witness ==
    /\ runpc = "returned"
    /\ config.nsamples = 3
    /\ config.files_per_request = 2
    /\ batches = << <<1, 2>>, <<3>> >>
    /\ summary.total_jobs = 2
    /\ summary.total_files = 3

(***************************************************************************)
(* C38: send_file_request never raises.  An exception while a request is   *)
(* built or sent becomes the failed result of that request (success false, *)
(* status_code 0, the latency measured up to the exception, the error      *)
(* text) and the run goes on: a sequential run of N requests stores        *)
(* exactly N results, in request order, and a result has success true only *)
(* if the HTTP status was 200.                                             *)
(***************************************************************************)
RequestFailedResult(file_name, elapsed) ==
    [status_code |-> 0, latency_ms |-> elapsed * 1000, success |-> FALSE,
     file_name |-> file_name, error |-> "exception"]

SequentialResults ==
    /\ lt_pc \in {"created", "sending", "returned"}
    /\ lt_pc = "sending" => Len(results) = lt_i
    /\ lt_pc = "returned" => Len(results) = Value(lt_config.sequential_count)
    /\ \A k \in 1..Len(results) :
          /\ results[k].file_name = get_file(sample_files, k - 1).file
          /\ results[k].success => results[k].status_code = 200

ExceptionBecomesResult ==
    \A resp \in SendResponses :
        (resp.exc /\ LtSeqDone(resp)) =>
            /\ results' = Append(results,
                                 RequestFailedResult(get_file(sample_files, lt_i).file,
                                                     resp.elapsed))
            /\ lt_pc' \in {"sending", "returned"}

C38_NeverRaises == []SequentialResults /\ [][ExceptionBecomesResult]_vars

\* a run of two requests has returned: the first raised after one second,
\* the second was answered 200
C38_Witness ==
    /\ lt_pc = "returned"
    /\ Len(results) = 2
    /\ results[1] = RequestFailedResult(1, 1)
    /\ results[2].success
    /\ results[2].status_code = 200

(***************************************************************************)
(* C39: run_test_suite returns exactly one result per configured rate, in  *)
(* rate order.  A rate whose test raised contributes the placeholder       *)
(* result of that rate, with total_requests 0 and error_rate 100; the      *)
(* exception does not end the suite, and every later rate is still run.    *)
(***************************************************************************)
C39_OneResultPerRate ==
    suite.pc # "unused" =>
        /\ suite.pc \in {"loop", "testing", "returned"}
        /\ Len(suite.results) = suite.i
        /\ Len(suite.outcomes) = suite.i
        /\ suite.pc = "returned" => Len(suite.results) = Len(suite.test_rates)
        /\ \A k \in 1..Len(suite.results) :
              /\ suite.results[k].target_files_per_second = suite.test_rates[k]
              /\ suite.outcomes[k] = "raised" =>
                    /\ suite.results[k].total_requests = 0
                    /\ suite.results[k].error_rate = FloatOfInt(100)
              /\ suite.outcomes[k] = "returned" =>
                    suite.results[k].total_requests = suite.test_rates[k] * SuiteDuration

\* the suite of rates 0 and 2 has returned: the test of rate 0 raised, the
\* test of rate 2 ran its two requests, one of which failed
C39_Witness ==
    /\ suite.pc = "returned"
    /\ suite.test_rates = <<0, 2>>
    /\ suite.outcomes = <<"raised", "returned">>
    /\ suite.results[1] = failed_result(0)
    /\ suite.results[2].total_requests = 2
    /\ suite.results[2].failed_requests = 1

====
